---- MODULE Spec2Model ----
(***************************************************************************)
(* Model of viewer/rtss_split_non_overlap.py: the pairwise conflict test   *)
(* of two ROIs (roi_intersect), the conflict graph (build_conflict_graph), *)
(* the DSATUR colouring (dsatur_coloring), the colour partition            *)
(* (split_into_sets), the RTSS loader (load_rois_from_rtss) and            *)
(* ROI.add_polygon; and of viewer/rtstruct.py with viewer/utils.py: the    *)
(* contour parser (parse_rtstruct) and the rasterizer                      *)
(* (contours_to_slice_masks, polygon_to_mask, patient_to_index).           *)
(*                                                                         *)
(* Specifications: Spec and FairSpec run build, colour and split on a list *)
(* of ROIs; SpecGeom is one roi_intersect call; SpecLoad one               *)
(* load_rois_from_rtss call; SpecAdd one add_polygon call; SpecParse one   *)
(* parse_rtstruct call; SpecMask one contours_to_slice_masks call;         *)
(* SpecIndex calls of patient_to_index and indices_to_patient; SpecDialog  *)
(* and FairSpecDialog the GUI thread and the worker thread of              *)
(* viewer/rtss_split_dialog.py; SpecNav the slice navigation of            *)
(* viewer/app_mainwindow.py.                                               *)
(*                                                                         *)
(* Geometry.  A shapely Polygon is modelled by the set of unit grid cells  *)
(* it covers; cell <<x, y>> is the square [x, x+1] x [y, y+1].  Bounding   *)
(* box, intersection area and the boolean intersects predicate are         *)
(* computed from the cells.                                                *)
(***************************************************************************)
EXTENDS Integers, Sequences, FiniteSets, TLC

VARIABLES
    rois,        \* list of ROI objects handed to build_conflict_graph / roi_intersect
    graph,       \* dict name -> set of names
    colors,      \* dict name -> colour (the values)
    colorKeys,   \* insertion order of the keys of colors
    saturation,  \* dict name -> int
    degrees,     \* dict name -> int
    uncolored,   \* set of names
    v,           \* the vertex picked by the last loop iteration of dsatur_coloring
    sets,        \* defaultdict colour -> list of names
    result,      \* return value of the roi_intersect call of SpecGeom
    geos,        \* outcome of the shapely calls during that roi_intersect call
    zorder,      \* iteration order of common_slices during that call
    ds,          \* the dataset pydicom.dcmread returned
    roi_names_filter,  \* argument of load_rois_from_rtss
    z_tol,       \* argument of load_rois_from_rtss
    roi_objs,    \* the dict rois of load_rois_from_rtss, in insertion order
    valid_rois,  \* the list load_rois_from_rtss returns
    error,       \* the exception a call raised, "None" without one
    roi_obj,     \* the ROI of one add_polygon call
    arg_z,       \* the argument z of that call
    arg_xy,      \* the argument xy of that call
    rt_rois,     \* the dict rois of parse_rtstruct: name -> list of contours
    origin,      \* arguments of contours_to_slice_masks
    spacing,
    direction,
    volume_shape,
    slice_masks, \* dict name -> per_slice, in insertion order
    per_slice,   \* dict slice index -> mask of the region being rasterized
    roi_idx,     \* position of that region in rois.items()
    contour_idx, \* position of the next contour of that region
    pivot,       \* the last pivot np.linalg.inv finds in a singular direction
    coord,       \* the value of the last transform call, patient or index
    coord_kind,  \* "patient" or "index": what coord is
    coord_start, \* the value the transform calls started from
    hops,        \* the number of transform calls made
    selected_rois,     \* the names checked in the dialog's ROI list
    progress_dialog,   \* self.progress_dialog: "None" or the dialog's state
    closed_by,         \* the thread that called progress_dialog.close()
    events,            \* the signals queued for the GUI thread, oldest first
    gui_pc,            \* the position of the GUI thread
    gui_arg,           \* the argument of the slot the GUI thread is in
    processing_result, \* self.processing_result: <<>> is None
    sent,              \* the last value the worker gave progress_signal
    finished_emits,    \* the number of finished_signal.emit calls that returned
    gui_error,         \* an exception raised in a slot or in the worker's handler
    message,           \* the last message box
    volume,          \* MainWindow.volume: <<>> is None, else <<depth, ndim>>
    slice_index,     \* MainWindow.slice_index
    slider_maximum,  \* the maximum of MainWindow.slider; its minimum is 0
    slider_value,    \* the value of MainWindow.slider
    pending_update,  \* MainWindow.pending_update: the update timer runs
    pc

pipeVars == <<rois, graph, colors, colorKeys, saturation, degrees, uncolored,
              v, sets, result, geos, zorder>>

loadVars == <<ds, roi_names_filter, z_tol, roi_objs, valid_rois, error>>

addVars == <<roi_obj, arg_z, arg_xy>>

maskVars == <<rt_rois, origin, spacing, direction, volume_shape, slice_masks,
              per_slice, roi_idx, contour_idx, pivot>>

indexVars == <<coord, coord_kind, coord_start, hops>>

dialogVars == <<selected_rois, progress_dialog, closed_by, events, gui_pc,
                gui_arg, processing_result, sent, finished_emits, gui_error,
                message>>

navVars == <<volume, slice_index, slider_maximum, slider_value, pending_update>>

vars == <<pipeVars, loadVars, addVars, maskVars, indexVars, dialogVars,
          navVars, pc>>

-----------------------------------------------------------------------------
(* Bounds and input universes *)

\* most ROIs in the list given to build_conflict_graph
MaxRois == 3

\* most vertices in the list xy given to add_polygon
MaxPoints == 4

\* most slices of a series
MaxDepth == 6

Names == {"A", "B", "C"}

ZLevels == {1, 2}

\* four polygons: P and N share an edge, L is an L-shape whose notch is N,
\* F touches L in one corner and is away from P and N
PolyP == {<<0, 0>>}
PolyN == {<<1, 0>>}
PolyL == {<<0, 0>>, <<0, 1>>, <<1, 1>>}
PolyF == {<<2, 2>>}

Polys == {PolyP, PolyN, PolyL, PolyF}

NoVertex == "-"

EmptyDict == [x \in {} |-> 0]

-----------------------------------------------------------------------------
(* shapely, on grid polygons *)

SetMin(S) == CHOOSE m \in S : \A x \in S : m <= x
SetMax(S) == CHOOSE m \in S : \A x \in S : m >= x

\* Polygon.bounds: (minx, miny, maxx, maxy)
bounds(p) ==
    [minx |-> SetMin({c[1] : c \in p}), miny |-> SetMin({c[2] : c \in p}),
     maxx |-> SetMax({c[1] : c \in p}) + 1, maxy |-> SetMax({c[2] : c \in p}) + 1]

\* pa.intersection(pb).area
intersection_area(pa, pb) == Cardinality(pa \cap pb)

Abs(n) == IF n < 0 THEN -n ELSE n

\* pa.intersects(pb): the closed polygons share at least one point
intersects(pa, pb) ==
    \E c \in pa, d \in pb : Abs(c[1] - d[1]) <= 1 /\ Abs(c[2] - d[2]) <= 1

\* What the two shapely calls of one polygon pair do: "ok" (intersection
\* returns), "area_raises" (intersection raises, intersects returns),
\* "both_raise".  At most one ordered polygon pair of a call fails.
NoFailure == [pa |-> {}, pb |-> {}, mode |-> "ok"]

GeosOutcomes(polysA, polysB) ==
    {NoFailure} \cup
    [pa : polysA, pb : polysB, mode : {"area_raises", "both_raise"}]

GeosMode(g, pa, pb) == IF g.pa = pa /\ g.pb = pb THEN g.mode ELSE "ok"

-----------------------------------------------------------------------------
(* roi_intersect *)

\* one pass of the innermost loop body: TRUE when it executes `return True`
PolygonPairHitGE(pa, pb, g) ==
    LET b1 == bounds(pa)
        b2 == bounds(pb)
    IN  IF b1.maxx < b2.minx \/ b2.maxx < b1.minx THEN FALSE
        ELSE IF b1.maxy < b2.miny \/ b2.maxy < b1.miny THEN FALSE
        ELSE IF GeosMode(g, pa, pb) = "ok" THEN intersection_area(pa, pb) >= 0
        ELSE IF GeosMode(g, pa, pb) = "area_raises" THEN intersects(pa, pb)
        ELSE FALSE

PolygonPairHit(pa, pb, g) ==
    LET b1 == bounds(pa)
        b2 == bounds(pb)
    IN  IF b1.maxx < b2.minx \/ b2.maxx < b1.minx THEN FALSE
        ELSE IF b1.maxy < b2.miny \/ b2.maxy < b1.miny THEN FALSE
        ELSE IF GeosMode(g, pa, pb) = "ok" THEN intersection_area(pa, pb) > 0
        ELSE IF GeosMode(g, pa, pb) = "area_raises" THEN intersects(pa, pb)
        ELSE FALSE

\* for pb in roi_b.slices[z], from position k on
RECURSIVE LoopPb(_, _, _, _)
LoopPb(pa, lb, k, g) ==
    IF k > Len(lb) THEN FALSE
    ELSE IF PolygonPairHit(pa, lb[k], g) THEN TRUE
    ELSE LoopPb(pa, lb, k + 1, g)

\* for pa in roi_a.slices[z], from position k on
RECURSIVE LoopPa(_, _, _, _)
LoopPa(la, lb, k, g) ==
    IF k > Len(la) THEN FALSE
    ELSE IF LoopPb(la[k], lb, 1, g) THEN TRUE
    ELSE LoopPa(la, lb, k + 1, g)

\* the value of slices[z] on a defaultdict(list): a missing key reads as []
GetItem(slices, z) == IF z \in DOMAIN slices THEN slices[z] ELSE <<>>

\* the defaultdict after slices[z] was read for every z in keys: a key that
\* was missing is now there, with an empty list
AfterGetItem(slices, keys) ==
    [z \in DOMAIN slices \cup keys |-> GetItem(slices, z)]

\* for z in common_slices, visited in the order zs, from position k on
RECURSIVE LoopZ(_, _, _, _, _)
LoopZ(roi_a, roi_b, zs, k, g) ==
    IF k > Len(zs) THEN FALSE
    ELSE IF LoopPa(GetItem(roi_a.slices, zs[k]), GetItem(roi_b.slices, zs[k]), 1, g)
         THEN TRUE
    ELSE LoopZ(roi_a, roi_b, zs, k + 1, g)

\* the levels z the loop over zs reaches, from position k on, until it
\* returns
RECURSIVE VisitedZ(_, _, _, _, _)
VisitedZ(roi_a, roi_b, zs, k, g) ==
    IF k > Len(zs) THEN {}
    ELSE IF LoopPa(GetItem(roi_a.slices, zs[k]), GetItem(roi_b.slices, zs[k]), 1, g)
         THEN {zs[k]}
    ELSE {zs[k]} \cup VisitedZ(roi_a, roi_b, zs, k + 1, g)

\* every key of either ROI
all_slices(roi_a, roi_b) == DOMAIN roi_a.slices \cup DOMAIN roi_b.slices

common_slices(roi_a, roi_b) == DOMAIN roi_a.slices \cap DOMAIN roi_b.slices

\* the orders in which a set can be iterated
Orders(S) ==
    {s \in [1..Cardinality(S) -> S] : \A x \in S : \E k \in DOMAIN s : s[k] = x}

\* the elements of the sequence zs that are in S, in the order of zs
RECURSIVE Restrict(_, _)
Restrict(zs, S) ==
    IF zs = <<>> THEN <<>>
    ELSE IF Head(zs) \in S THEN <<Head(zs)>> \o Restrict(Tail(zs), S)
    ELSE Restrict(Tail(zs), S)

\* roi_intersect(roi_a, roi_b); zs is the iteration order of the z keys
roi_intersect(roi_a, roi_b, zs, g) ==
    IF common_slices(roi_a, roi_b) = {} THEN FALSE
    ELSE LoopZ(roi_a, roi_b, Restrict(zs, common_slices(roi_a, roi_b)), 1, g)

\* roi_a as the call roi_intersect(roi_a, roi_b) leaves it: roi_a.slices[z]
\* is read for every level the loop reaches
roi_a_after(roi_a, roi_b, zs, g) ==
    [roi_a EXCEPT !.slices = AfterGetItem(@,
        VisitedZ(roi_a, roi_b, Restrict(zs, common_slices(roi_a, roi_b)), 1, g))]

\* roi_b as the call leaves it: roi_b.slices[z] is read once for each
\* polygon of roi_a.slices[z]
roi_b_after(roi_a, roi_b, zs, g) ==
    [roi_b EXCEPT !.slices = AfterGetItem(@,
        {z \in VisitedZ(roi_a, roi_b, Restrict(zs, common_slices(roi_a, roi_b)), 1, g) :
            GetItem(roi_a.slices, z) # <<>>})]

-----------------------------------------------------------------------------
(* build_conflict_graph *)

\* graph[a].add(b)
AddOneWay(gr, a, b) == [gr EXCEPT ![a] = @ \cup {b}]

\* graph[a].add(b); graph[b].add(a)
AddEdge(gr, a, b) == [gr EXCEPT ![a] = @ \cup {b}, ![b] = @ \cup {a}]

\* the two nested loops over i < j, from the pair (i, j) on
\* the graph and the ROI list after the call roi_intersect(rs[i], rs[j])
\* of the inner loop
PairStep(gr, rs, i, j, zs, g) ==
    [graph |-> IF roi_intersect(rs[i], rs[j], zs, g)
               THEN AddEdge(gr, rs[i].name, rs[j].name)
               ELSE gr,
     rois |-> [rs EXCEPT ![i] = roi_a_after(rs[i], rs[j], zs, g),
                         ![j] = roi_b_after(rs[i], rs[j], zs, g)]]

\* gives the graph and the ROI list as the calls of roi_intersect leave
\* them; st is the record of both before the pair (i, j)
RECURSIVE PairLoop(_, _, _, _, _)
PairLoop(st, i, j, zs, g) ==
    IF i > Len(st.rois) THEN st
    ELSE IF j > Len(st.rois) THEN PairLoop(st, i + 1, i + 2, zs, g)
    ELSE PairLoop(PairStep(st.graph, st.rois, i, j, zs, g), i, j + 1, zs, g)

\* the graph build_conflict_graph(rois) returns
build_conflict_graph(rs, zs, g) ==
    PairLoop([graph |-> [n \in {rs[k].name : k \in DOMAIN rs} |-> {}],
              rois |-> rs], 1, 2, zs, g).graph

\* the list rois as build_conflict_graph(rois) leaves it
rois_after_build(rs, zs, g) ==
    PairLoop([graph |-> [n \in {rs[k].name : k \in DOMAIN rs} |-> {}],
              rois |-> rs], 1, 2, zs, g).rois

-----------------------------------------------------------------------------
(* dsatur_coloring *)

\* key=lambda x: (saturation[x], degrees[x]), compared as tuples
KeyLess(sat, deg, x, y) ==
    sat[x] < sat[y] \/ (sat[x] = sat[y] /\ deg[x] < deg[y])

\* v = next(iter(uncolored)), the key left out
AnyUncolored(unc, sat, deg) == unc

\* the vertices max(uncolored, key=...) can return: the first maximal one in
\* the iteration order of the set, which is any maximal one
MaxCandidates(unc, sat, deg) ==
    {x \in unc : \A y \in unc : ~KeyLess(sat, deg, x, y)}

\* {colors[n] for n in graph[x] if n in colors}
UsedColors(gr, cols, x) == {cols[n] : n \in gr[x] \cap DOMAIN cols}

\* color += 2
NextColorSkip(color) == color + 2

\* color += 1
NextColor(color) == color + 1

\* color = 0, the while loop left out
FirstFreeNoLoop(used, color) == color

\* color = 0; while color in neighbor_colors: color += 1
RECURSIVE FirstFree(_, _)
FirstFree(used, color) ==
    IF color \in used THEN FirstFree(used, NextColor(color)) ELSE color

\* every coloured vertex repainted with color
SetColorRepaint(cols, x, color) == [n \in DOMAIN cols \cup {x} |-> color]

\* colors[x] = color
SetColor(cols, x, color) ==
    [n \in DOMAIN cols \cup {x} |-> IF n = x THEN color ELSE cols[n]]

-----------------------------------------------------------------------------
(* split_into_sets *)

\* sets[color] = [roi_name]
Assign1(s, color, name) ==
    [c \in DOMAIN s \cup {color} |-> IF c = color THEN <<name>> ELSE s[c]]

\* sets[color].append(roi_name) on a defaultdict(list)
Append1(s, color, name) ==
    [c \in DOMAIN s \cup {color} |->
        IF c = color
        THEN (IF c \in DOMAIN s THEN Append(s[c], name) ELSE <<name>>)
        ELSE s[c]]

\* for roi_name, color in colors.items(), from position k on
RECURSIVE SplitLoop(_, _, _, _)
SplitLoop(s, cols, keys, k) ==
    IF k > Len(keys) THEN s
    ELSE SplitLoop(Append1(s, cols[keys[k]], keys[k]), cols, keys, k + 1)

split_into_sets(cols, keys) == SplitLoop(EmptyDict, cols, keys, 1)

-----------------------------------------------------------------------------
(* ROI.add_polygon.  Here a Polygon is kept as its exterior ring, the list *)
(* of its vertices <<x, y>>, closed.                                        *)

\* Polygon(xy): shapely closes the ring when the last vertex is not the first
Ring(xy) ==
    IF xy = <<>> THEN <<>>
    ELSE IF xy[Len(xy)] = xy[1] THEN xy
    ELSE Append(xy, xy[1])

Polygon(xy) == [exterior |-> Ring(xy)]

\* twice the signed area of a closed ring, from position k on (shoelace)
RECURSIVE Shoelace(_, _)
Shoelace(ring, k) ==
    IF k >= Len(ring) THEN 0
    ELSE ring[k][1] * ring[k + 1][2] - ring[k + 1][1] * ring[k][2]
         + Shoelace(ring, k + 1)

\* poly.area, doubled: the area of a polygon is never negative
area2(poly) == Abs(Shoelace(poly.exterior, 1))

\* the orientation of the turn o -> a -> b
Cross(o, a, b) ==
    (a[1] - o[1]) * (b[2] - o[2]) - (a[2] - o[2]) * (b[1] - o[1])

\* p lies in the bounding box of the segment a b
InBox(a, b, p) ==
    /\ SetMin({a[1], b[1]}) <= p[1] /\ p[1] <= SetMax({a[1], b[1]})
    /\ SetMin({a[2], b[2]}) <= p[2] /\ p[2] <= SetMax({a[2], b[2]})

Sign(n) == IF n > 0 THEN 1 ELSE IF n < 0 THEN -1 ELSE 0

\* the closed segments a b and c d have a point in common
SegmentsMeet(a, b, c, d) ==
    \/ /\ Sign(Cross(a, b, c)) * Sign(Cross(a, b, d)) < 0
       /\ Sign(Cross(c, d, a)) * Sign(Cross(c, d, b)) < 0
    \/ Cross(a, b, c) = 0 /\ InBox(a, b, c)
    \/ Cross(a, b, d) = 0 /\ InBox(a, b, d)
    \/ Cross(c, d, a) = 0 /\ InBox(c, d, a)
    \/ Cross(c, d, b) = 0 /\ InBox(c, d, b)

\* the ring without the vertices that repeat their predecessor
RECURSIVE Dedup(_)
Dedup(ring) ==
    IF Len(ring) < 2 THEN ring
    ELSE IF ring[1] = ring[2] THEN Dedup(Tail(ring))
    ELSE <<ring[1]>> \o Dedup(Tail(ring))

\* the edges a b and b c, which share the vertex b, run back over each other
FoldsBack(a, b, c) ==
    /\ Cross(b, a, c) = 0
    /\ (a[1] - b[1]) * (c[1] - b[1]) + (a[2] - b[2]) * (c[2] - b[2]) > 0

\* poly.is_valid for a polygon without holes: the ring has at least three
\* edges and is simple, so two edges meet only in the vertex that consecutive
\* edges share
is_valid(poly) ==
    LET r == Dedup(poly.exterior)
        n == Len(r) - 1
        nxt(k) == IF k = n THEN 1 ELSE k + 1
    IN  /\ n >= 3
        /\ \A i, j \in 1..n :
              i < j =>
                 IF nxt(i) = j THEN ~FoldsBack(r[i], r[j], r[nxt(j)])
                 ELSE IF nxt(j) = i THEN ~FoldsBack(r[j], r[i], r[nxt(i)])
                 ELSE ~SegmentsMeet(r[i], r[nxt(i)], r[j], r[nxt(j)])

\* the polygon of xy appended under z whatever xy is
add_polygon_unchecked(slices, z, xy) == Append1(slices, z, Polygon(xy))

\* roi.add_polygon(z, xy): roi.slices after the call.  Polygon(xy) raises for
\* a ring of fewer than four coordinates only, which the length test and the
\* closing of a triangle exclude
add_polygon(slices, z, xy) ==
    IF Len(xy) < 3 THEN slices
    ELSE LET closed == IF Len(xy) = 3 THEN Append(xy, xy[1]) ELSE xy
             poly == Polygon(closed)
         IN  IF is_valid(poly) /\ area2(poly) > 0
             THEN Append1(slices, z, poly)
             ELSE slices

-----------------------------------------------------------------------------
(* Inputs *)

\* the z -> list[Polygon] maps over the polygon lists in lists; a key exists
\* only with at least one polygon under it (add_polygon)
SliceMaps(lists) ==
    UNION {[S -> lists] : S \in (SUBSET ZLevels) \ {{}}}

ROI(roi_number, roi_name, slices) ==
    [number |-> roi_number, name |-> roi_name, slices |-> slices]

\* the ROI lists of length n, numbered in list order
RoiLists(n, names, maps) ==
    {[k \in 1..n |-> ROI(k, f[k][1], f[k][2])] : f \in [1..n -> names \X maps]}

\* the pipeline's ROIs hold the polygon P on one or both levels: ROIs overlap
\* where they share a level, which gives every graph on the ROIs and ROIs
\* with disjoint z keys
PipelinePolys == {PolyP}

PipelineMaps == SliceMaps({<<p>> : p \in PipelinePolys})

\* for one roi_intersect call: one or two polygons on level 1, one on level 2
GeomMaps ==
    {m \in SliceMaps({<<p>> : p \in Polys} \cup {<<p, q>> : p, q \in Polys}) :
        2 \in DOMAIN m => Len(m[2]) = 1}

\* the polygons of an ROI
PolysOf(roi) ==
    {roi.slices[z][k] : <<z, k>> \in
        UNION {{z} \X DOMAIN roi.slices[z] : z \in DOMAIN roi.slices}}

-----------------------------------------------------------------------------
(* load_rois_from_rtss.  A dataset is a record of its two sequences, each   *)
(* with a flag telling whether the attribute is there; a dict is the list   *)
(* of its <<key, value>> pairs in insertion order.                          *)

\* d[key] = val on a dict: a key that is there keeps its place
RECURSIVE DictPut(_, _, _)
DictPut(d, key, val) ==
    IF d = <<>> THEN <<<<key, val>>>>
    ELSE IF Head(d)[1] = key THEN <<<<key, val>>>> \o Tail(d)
    ELSE <<Head(d)>> \o DictPut(Tail(d), key, val)

\* {roi.ROINumber: roi.ROIName for roi in ds.StructureSetROISequence},
\* from position k on
RECURSIVE RoiInfoLoop(_, _, _)
RoiInfoLoop(d, seq, k) ==
    IF k > Len(seq) THEN d
    ELSE RoiInfoLoop(DictPut(d, seq[k].ROINumber, seq[k].ROIName), seq, k + 1)

roi_info(dataset) == RoiInfoLoop(<<>>, dataset.StructureSetROISequence, 1)

\* name in roi_names_filter
NameIn(name, names) == \E k \in DOMAIN names : names[k] = name

\* the pairs of info whose name is in the filter, in the order of info
RECURSIVE FilterInfo(_, _)
FilterInfo(info, names) ==
    IF info = <<>> THEN <<>>
    ELSE IF NameIn(Head(info)[2], names)
         THEN <<Head(info)>> \o FilterInfo(Tail(info), names)
    ELSE FilterInfo(Tail(info), names)

\* the test "if roi_names_filter:": None and the empty list are both false
FilterTruthy(filter) == filter.given /\ filter.names # <<>>

\* the dict rois before the contours are read: one ROI without polygons for
\* each number kept
InitialRois(dataset, filter) ==
    LET info == roi_info(dataset)
        kept == IF FilterTruthy(filter) THEN FilterInfo(info, filter.names)
                ELSE info
    IN  [k \in DOMAIN kept |-> ROI(kept[k][1], kept[k][2], EmptyDict)]

\* rois.get(roi_number): the position of the ROI in the dict, 0 for None
RoisGet(objs, roi_number) ==
    IF \E k \in DOMAIN objs : objs[k].number = roi_number
    THEN CHOOSE k \in DOMAIN objs : objs[k].number = roi_number
    ELSE 0

\* round(a / b) for b > 0: Python rounds a tie to the even neighbour
RoundHalfEven(a, b) ==
    LET q == a \div b
        r == a % b
    IN  IF 2 * r < b THEN q
        ELSE IF 2 * r > b THEN q + 1
        ELSE IF q % 2 = 0 THEN q ELSE q + 1

\* the rows of np.array(ContourData).reshape(-1, 3)
Rows(data) ==
    [k \in 1..(Len(data) \div 3) |->
        <<data[3 * k - 2], data[3 * k - 1], data[3 * k]>>]

RECURSIVE SumZ(_, _)
SumZ(rows, k) == IF k > Len(rows) THEN 0 ELSE rows[k][3] + SumZ(rows, k + 1)

\* z = float(np.mean(data[:, 2])); z = round(z / z_tol) * z_tol
SnapZ(rows, tol) == RoundHalfEven(SumZ(rows, 1), Len(rows) * tol) * tol

\* xy = [(float(x), float(y)) for x, y in data[:, :2]]
XYOf(rows) == [k \in DOMAIN rows |-> <<rows[k][1], rows[k][2]>>]

\* a contour whose ContourData does not fill whole rows is read up to its
\* last whole row
contour_step_truncating(slices, contour, tol) ==
    IF ~contour.hasContourData THEN slices
    ELSE add_polygon(slices, SnapZ(Rows(contour.ContourData), tol),
                     XYOf(Rows(contour.ContourData)))

\* one iteration of "for contour in roi_contour.ContourSequence":
\* roi_obj.slices after it.  reshape(-1, 3) raises ValueError when the length
\* is no multiple of 3, and the handler goes on with the next contour
contour_step(slices, contour, tol) ==
    IF ~contour.hasContourData THEN slices
    ELSE IF Len(contour.ContourData) % 3 # 0 THEN slices
    ELSE add_polygon(slices, SnapZ(Rows(contour.ContourData), tol),
                     XYOf(Rows(contour.ContourData)))

\* for contour in roi_contour.ContourSequence, from position k on
RECURSIVE ContourLoop(_, _, _, _)
ContourLoop(slices, contours, k, tol) ==
    IF k > Len(contours) THEN slices
    ELSE ContourLoop(contour_step(slices, contours[k], tol), contours, k + 1, tol)

\* a group whose ReferencedROINumber is not in the dict gets an ROI of its own
group_step_creating(objs, group, tol) ==
    LET k == RoisGet(objs, group.ReferencedROINumber)
        cs == IF group.hasContourSequence THEN group.ContourSequence ELSE <<>>
    IN  IF k = 0
        THEN Append(objs, ROI(group.ReferencedROINumber, "",
                              ContourLoop(EmptyDict, cs, 1, tol)))
        ELSE [objs EXCEPT ![k].slices = ContourLoop(@, cs, 1, tol)]

\* one iteration of "for roi_contour in ds.ROIContourSequence": the dict rois
\* after it
group_step(objs, group, tol) ==
    LET k == RoisGet(objs, group.ReferencedROINumber)
    IN  IF k = 0 THEN objs
        ELSE IF ~group.hasContourSequence THEN objs
        ELSE [objs EXCEPT ![k].slices =
                  ContourLoop(@, group.ContourSequence, 1, tol)]

\* for roi_contour in ds.ROIContourSequence, from position k on
RECURSIVE GroupLoop(_, _, _, _)
GroupLoop(objs, groups, k, tol) ==
    IF k > Len(groups) THEN objs
    ELSE GroupLoop(group_step(objs, groups[k], tol), groups, k + 1, tol)

\* the ROIs of the dict with at least one key in slices, in dict order
RECURSIVE SelectRois(_)
SelectRois(objs) ==
    IF objs = <<>> THEN <<>>
    ELSE IF DOMAIN Head(objs).slices # {}
         THEN <<Head(objs)>> \o SelectRois(Tail(objs))
    ELSE SelectRois(Tail(objs))

\* every declared ROI is returned
ValidRoisAll(objs) == objs

\* valid_rois = [roi for roi in rois.values() if len(roi.slices) > 0]
ValidRois(objs) == SelectRois(objs)

\* the exception load_rois_from_rtss raises on the dataset, "None" without
MissingSequence(dataset) ==
    IF ~dataset.hasStructureSetROISequence THEN "ValueError"
    ELSE IF ~dataset.hasROIContourSequence THEN "ValueError"
    ELSE "None"

\* the dict rois when the loop over ds.ROIContourSequence is done
LoadedRois(dataset, tol, filter) ==
    GroupLoop(InitialRois(dataset, filter), dataset.ROIContourSequence, 1, tol)

-----------------------------------------------------------------------------
(* viewer/rtstruct.py: parse_rtstruct *)

\* getattr(ds, 'StructureSetROISequence', []) or []
DeclaredOrEmpty(dataset) ==
    IF dataset.hasStructureSetROISequence THEN dataset.StructureSetROISequence
    ELSE <<>>

\* getattr(ds, 'ROIContourSequence', []) or []
GroupsOrEmpty(dataset) ==
    IF dataset.hasROIContourSequence THEN dataset.ROIContourSequence ELSE <<>>

\* getattr(rc, 'ContourSequence', []) or []
ContoursOrEmpty(group) ==
    IF group.hasContourSequence THEN group.ContourSequence ELSE <<>>

roi_name_map(dataset) == RoiInfoLoop(<<>>, DeclaredOrEmpty(dataset), 1)

\* f'ROI_{rnum}'
DefaultName(rnum) ==
    IF rnum = 1 THEN "ROI_1" ELSE IF rnum = 2 THEN "ROI_2" ELSE "ROI_3"

\* roi_name_map.get(rnum, f'ROI_{rnum}')
NameOfGroup(map, rnum) ==
    IF \E k \in DOMAIN map : map[k][1] = rnum
    THEN map[CHOOSE k \in DOMAIN map : map[k][1] = rnum][2]
    ELSE DefaultName(rnum)

\* the list contours of one group: the arrays of its items that have
\* ContourData, from position k on
RECURSIVE GroupContours(_, _)
GroupContours(contours, k) ==
    IF k > Len(contours) THEN <<>>
    ELSE IF ~contours[k].hasContourData THEN GroupContours(contours, k + 1)
    ELSE <<Rows(contours[k].ContourData)>> \o GroupContours(contours, k + 1)

\* reshape(-1, 3) raises ValueError on one of the contours of the group;
\* nothing in parse_rtstruct catches it
GroupRaises(group) ==
    \E k \in DOMAIN ContoursOrEmpty(group) :
        /\ ContoursOrEmpty(group)[k].hasContourData
        /\ Len(ContoursOrEmpty(group)[k].ContourData) % 3 # 0

\* for rc in ds.ROIContourSequence, from position k on: the dict rois
RECURSIVE ParseLoop(_, _, _, _)
ParseLoop(d, map, groups, k) ==
    IF k > Len(groups) THEN d
    ELSE LET contours == GroupContours(ContoursOrEmpty(groups[k]), 1)
             name == NameOfGroup(map, groups[k].ReferencedROINumber)
         IN  ParseLoop(IF contours # <<>> THEN DictPut(d, name, contours) ELSE d,
                       map, groups, k + 1)

\* the exception parse_rtstruct raises on the dataset, "None" without
ParseError(dataset) ==
    IF \E k \in DOMAIN GroupsOrEmpty(dataset) : GroupRaises(GroupsOrEmpty(dataset)[k])
    THEN "ValueError"
    ELSE "None"

\* the dict parse_rtstruct returns when no contour raises
parse_rtstruct(dataset) ==
    ParseLoop(<<>>, roi_name_map(dataset), GroupsOrEmpty(dataset), 1)

-----------------------------------------------------------------------------
(* viewer/utils.py: patient_to_index.  An index is kept exact, as the      *)
(* numerators num and the positive denominators den of its three           *)
(* components.                                                              *)

\* the successor of i in the cycle 1, 2, 3
Cyc(i) == (i % 3) + 1

\* the cofactor of the entry (i, j) of a 3x3 matrix
Cofactor(m, i, j) ==
    m[Cyc(i)][Cyc(j)] * m[Cyc(Cyc(i))][Cyc(Cyc(j))]
    - m[Cyc(i)][Cyc(Cyc(j))] * m[Cyc(Cyc(i))][Cyc(j)]

Det3(m) ==
    m[1][1] * Cofactor(m, 1, 1) + m[1][2] * Cofactor(m, 1, 2)
    + m[1][3] * Cofactor(m, 1, 3)

\* a matrix without inverse
Singular(m) == Det3(m) = 0

\* The elimination of np.linalg.inv works in floating point.  It is exact
\* for entries -1, 0 and 1; with other entries its multipliers (1/7, 4/7)
\* are rounded.
ExactElimination(m) == \A i, j \in 1..3 : m[i][j] \in {-1, 0, 1}

\* The last pivot the elimination leaves for a singular matrix, by its
\* sign: 0 when the elimination is exact, and 0 or a rounding residue
\* (negative here) when it is not; which of the two depends on the
\* rounding of the build.
Pivots(m) ==
    IF Singular(m) /\ ~ExactElimination(m) THEN {0, -1} ELSE {0}

\* np.linalg.inv(dir_mat) raises LinAlgError when a pivot is exactly 0
Raises(m) == Singular(m) /\ pivot = 0

\* the reciprocal of a rounding residue, standing for about 10^15
ResidueReciprocal == 1000

\* inv.dot(relative) / spacing when np.linalg.inv returns: the inverse is
\* the transposed cofactor matrix over the determinant, and over the
\* rounding residue for a singular matrix
patient_to_index(pt_xyz, org, sp, dir) ==
    LET relative == [i \in 1..3 |-> pt_xyz[i] - org[i]]
        det == IF Singular(dir) THEN pivot ELSE Det3(dir)
        scale == IF Singular(dir) THEN ResidueReciprocal ELSE 1
        adj(i) == Cofactor(dir, 1, i) * relative[1]
                  + Cofactor(dir, 2, i) * relative[2]
                  + Cofactor(dir, 3, i) * relative[3]
    IN  [num |-> [i \in 1..3 |-> Sign(det) * scale * adj(i)],
         den |-> [i \in 1..3 |->
                     (IF Singular(dir) THEN 1 ELSE Abs(det)) * sp[i]]]

\* the product of the three denominators of an exact value
Den3(q) == q.den[1] * q.den[2] * q.den[3]

\* the numerator of component j of q over the denominator Den3(q)
NumOver(q, j) == q.num[j] * q.den[Cyc(j)] * q.den[Cyc(Cyc(j))]

\* dir_mat.dot(index * spacing) with nothing added
indices_to_patient_no_origin(index_xyz, org, sp, dir) ==
    [num |-> [i \in 1..3 |->
                 dir[i][1] * NumOver(index_xyz, 1) * sp[1]
                 + dir[i][2] * NumOver(index_xyz, 2) * sp[2]
                 + dir[i][3] * NumOver(index_xyz, 3) * sp[3]],
     den |-> [i \in 1..3 |-> Den3(index_xyz)]]

\* dir_mat.dot(index * spacing) + origin, for an exact index
indices_to_patient(index_xyz, org, sp, dir) ==
    [num |-> [i \in 1..3 |->
                 dir[i][1] * NumOver(index_xyz, 1) * sp[1]
                 + dir[i][2] * NumOver(index_xyz, 2) * sp[2]
                 + dir[i][3] * NumOver(index_xyz, 3) * sp[3]
                 + org[i] * Den3(index_xyz)],
     den |-> [i \in 1..3 |-> Den3(index_xyz)]]

\* two exact values are the same numbers
SameValue(p, q) ==
    \A i \in 1..3 : p.num[i] * q.den[i] = q.num[i] * p.den[i]

\* the integer point an exact value with whole components stands for
Whole(q) == [i \in 1..3 |-> q.num[i] \div q.den[i]]

IsWhole(q) == \A i \in 1..3 : q.num[i] % q.den[i] = 0

-----------------------------------------------------------------------------
(* viewer/rtstruct.py: polygon_to_mask and contours_to_slice_masks.  A mask *)
(* is the set of its true pixels <<row, column>>.                           *)

\* int(np.floor(n / d)) for d > 0
Floor(n, d) == n \div d

\* int(np.ceil(n / d)) for d > 0
Ceil(n, d) == -((-n) \div d)

\* the edge from vertex a to vertex b of the path flips the inside flag of
\* the point (tx, ty): the crossing test of Path.contains_points
EdgeFlips(a, b, tx, ty) ==
    LET ax == a.num[1]
        ay == a.num[2]
        bx == b.num[1]
        by == b.num[2]
        px == tx * a.den[1]
        py == ty * a.den[2]
    IN  /\ (ay >= py) # (by >= py)
        /\ ((by - py) * (ax - bx) >= (bx - px) * (ay - by)) <=> (by >= py)

\* Path(poly_xy).contains_points for one point: the edges of the path, the
\* closing one included, flip the flag an odd number of times
contains_point(idxs, tx, ty) ==
    LET n == Len(idxs)
    IN  Cardinality({k \in 1..n : EdgeFlips(idxs[k], idxs[(k % n) + 1], tx, ty)})
           % 2 = 1

\* polygon_to_mask(poly_xy, (rows, cols)), poly_xy the first two components
\* of idxs
polygon_to_mask(idxs, rows, cols) ==
    IF Len(idxs) < 3 THEN {}
    ELSE LET xs == {idxs[k].num[1] : k \in DOMAIN idxs}
             ys == {idxs[k].num[2] : k \in DOMAIN idxs}
             minx == SetMax({Floor(SetMin(xs), idxs[1].den[1]), 0})
             maxx == SetMin({Ceil(SetMax(xs), idxs[1].den[1]), cols - 1})
             miny == SetMax({Floor(SetMin(ys), idxs[1].den[2]), 0})
             maxy == SetMin({Ceil(SetMax(ys), idxs[1].den[2]), rows - 1})
         IN  IF minx > maxx \/ miny > maxy THEN {}
             ELSE {yx \in (miny..maxy) \X (minx..maxx) :
                      contains_point(idxs, yx[2], yx[1])}

\* idxs = np.array([patient_to_index(pt, ...) for pt in contour])
IdxsOf(contour, org, sp, dir) ==
    [k \in DOMAIN contour |-> patient_to_index(contour[k], org, sp, dir)]

\* ks = np.unique(np.round(k_vals).astype(int))
KsOf(idxs) == {RoundHalfEven(idxs[k].num[3], idxs[k].den[3]) : k \in DOMAIN idxs}

\* every index passes
InRangeAny(k, zcount) == TRUE

\* not (k < 0 or k >= zcount)
InRange(k, zcount) == ~(k < 0 \/ k >= zcount)

\* the new mask takes the place of the old one
Overwrite(old, mask) == mask

\* per_slice[k] | mask
OrMask(old, mask) == old \cup mask

\* one iteration of "for contour in contours": per_slice after it
mask_contour(per, contour, org, sp, dir, shape) ==
    LET idxs == IdxsOf(contour, org, sp, dir)
        ks == {k \in KsOf(idxs) : InRange(k, shape[1])}
        mask == polygon_to_mask(idxs, shape[2], shape[3])
    IN  [k \in DOMAIN per \cup ks |->
            IF k \notin ks THEN per[k]
            ELSE IF k \in DOMAIN per THEN OrMask(per[k], mask)
            ELSE mask]

-----------------------------------------------------------------------------
(* Datasets and arguments *)

\* ContourData: x, y, z of each vertex in turn
DataSquareZ1 == <<0, 0, 1, 2, 0, 1, 2, 2, 1, 0, 2, 1>>
DataTriangleZ2 == <<0, 0, 2, 2, 0, 2, 0, 2, 2>>
DataTiltedTriangle == <<0, 0, 1, 2, 0, 2, 0, 2, 2>>
DataTwoPoints == <<0, 0, 1, 2, 2, 1>>
\* three vertices and one more number
DataBadLength == <<0, 0, 1, 2, 0, 1, 0, 2, 1, 0>>

Contour(data) == [hasContourData |-> TRUE, ContourData |-> data]

\* a contour item without the attribute ContourData
ContourNoData == [hasContourData |-> FALSE, ContourData |-> <<>>]

Contours ==
    {Contour(d) : d \in {DataSquareZ1, DataTriangleZ2, DataTiltedTriangle,
                         DataTwoPoints, DataBadLength}}
    \cup {ContourNoData}

\* an item of ROIContourSequence
Group(num, cs) ==
    [ReferencedROINumber |-> num, hasContourSequence |-> TRUE,
     ContourSequence |-> cs]

\* an item of ROIContourSequence without the attribute ContourSequence
GroupNoSequence(num) ==
    [ReferencedROINumber |-> num, hasContourSequence |-> FALSE,
     ContourSequence |-> <<>>]

\* the numbers a group can refer to; no ROI is declared with number 3
RefNumbers == {1, 2, 3}

OneContour == {<<c>> : c \in Contours}

TwoContours == {<<c, d>> : c, d \in Contours}

\* the values of ROIContourSequence: up to two groups, the first with up to
\* two contours
GroupLists ==
    LET first == {Group(n, cs) : n \in RefNumbers, cs \in OneContour \cup TwoContours}
                 \cup {GroupNoSequence(n) : n \in RefNumbers}
        second == {Group(n, cs) : n \in RefNumbers, cs \in OneContour}
    IN  {<<>>} \cup {<<g>> : g \in first}
        \cup {<<g, h>> : g \in first, h \in second}

Declared(num, name) == [ROINumber |-> num, ROIName |-> name]

\* the values of StructureSetROISequence: no ROI, one, two, two of one name,
\* two of one number
DeclaredLists ==
    {<<>>,
     <<Declared(1, "A")>>,
     <<Declared(1, "A"), Declared(2, "B")>>,
     <<Declared(1, "A"), Declared(2, "A")>>,
     <<Declared(1, "A"), Declared(1, "B")>>}

Dataset(hasSS, ss, hasRC, rc) ==
    [hasStructureSetROISequence |-> hasSS, StructureSetROISequence |-> ss,
     hasROIContourSequence |-> hasRC, ROIContourSequence |-> rc]

Datasets ==
    {Dataset(TRUE, ss, TRUE, rc) : ss \in DeclaredLists, rc \in GroupLists}
    \cup {Dataset(FALSE, <<>>, TRUE, rc) : rc \in GroupLists}
    \cup {Dataset(TRUE, ss, FALSE, <<>>) : ss \in DeclaredLists}

\* roi_names_filter=None
NoFilter == [given |-> FALSE, names |-> <<>>]

Filters ==
    {NoFilter} \cup {[given |-> TRUE, names |-> ns] : ns \in {<<>>, <<"A">>}}

\* the values of z_tol, in the unit of the z coordinates
ZTols == {1, 2}

\* the vertices of the lists given to add_polygon
AddPoints == {<<0, 0>>, <<2, 0>>, <<2, 2>>, <<0, 2>>, <<1, 1>>}

\* the lists xy given to add_polygon
XYLists == UNION {[1..n -> AddPoints] : n \in 0..MaxPoints}

\* the values of roi.slices before the call of add_polygon
AddMaps ==
    {EmptyDict} \cup SliceMaps({<<Polygon(XYOf(Rows(DataSquareZ1)))>>})

\* a volume of 2 slices of 3 x 3 pixels: volume.shape = (z, y, x)
VolumeShape == <<2, 3, 3>>

DirIdentity == <<<<1, 0, 0>>, <<0, 1, 0>>, <<0, 0, 1>>>>

\* the z axis of the volume runs against the patient z axis
DirFlipZ == <<<<1, 0, 0>>, <<0, 1, 0>>, <<0, 0, -1>>>>

\* a matrix without inverse
DirSingular == <<<<1, 0, 0>>, <<0, 1, 0>>, <<0, 0, 0>>>>

\* a matrix without inverse whose elimination is rounded
DirSingularRounded == <<<<1, 2, 3>>, <<4, 5, 6>>, <<7, 8, 9>>>>

\* the values of <<origin, spacing, direction>>: unit spacing with each
\* direction, and slices of thickness 2 that start at z = -1, which puts the
\* vertices with z = 0 halfway between two slices
Geometries ==
    {<<<<0, 0, 0>>, <<1, 1, 1>>, d>> : d \in {DirIdentity, DirFlipZ, DirSingular, DirSingularRounded}}
    \cup {<<<<0, 0, -1>>, <<1, 1, 2>>, DirIdentity>>}

\* a sheared x axis, determinant 1
DirShear == <<<<1, 1, 0>>, <<0, 1, 0>>, <<0, 0, 1>>>>

\* the axes in another order
DirPermuted == <<<<0, 1, 0>>, <<0, 0, 1>>, <<1, 0, 0>>>>

\* determinant -2
DirStretched == <<<<1, 0, 1>>, <<0, -1, 0>>, <<1, 0, -1>>>>

\* the geometries of the transform calls: every direction has an inverse
\* and no spacing is 0
IndexGeometries ==
    {<<<<0, 0, 0>>, <<1, 1, 1>>>>, <<<<1, -1, 2>>, <<1, 2, 3>>>>,
     <<<<0, 0, -1>>, <<-1, 1, 2>>>>}
    \X {DirIdentity, DirFlipZ, DirShear, DirPermuted, DirStretched}

\* the points and indices the transform calls start from
IndexPoints == {-1, 0, 2} \X {-1, 0, 2} \X {-1, 0, 2}

\* contours as parse_rtstruct returns them: the rows <<x, y, z>> in patient
\* coordinates
MaskContours ==
    {<<<<0, 0, 0>>, <<2, 0, 0>>, <<2, 2, 0>>, <<0, 2, 0>>>>,
     <<<<1, 1, 0>>, <<3, 1, 0>>, <<3, 3, 0>>, <<1, 3, 0>>>>,
     <<<<0, 0, 1>>, <<2, 0, 1>>, <<2, 2, 1>>, <<0, 2, 1>>>>,
     <<<<0, 0, 0>>, <<2, 0, 1>>, <<0, 2, 1>>>>,
     <<<<0, 0, 7>>, <<2, 0, 7>>, <<2, 2, 7>>, <<0, 2, 7>>>>,
     <<<<0, 0, 0>>, <<2, 2, 0>>>>}

\* the lists of contours of one region
ContourLists ==
    {<<c>> : c \in MaskContours} \cup {<<c, d>> : c, d \in MaskContours}

\* the dicts parse_rtstruct hands to contours_to_slice_masks
MaskRois ==
    {<<>>} \cup {<<<<"A", a>>>> : a \in ContourLists}
    \cup {<<<<"A", a>>, <<"B", b>>>> : a, b \in ContourLists}

-----------------------------------------------------------------------------
(* The variables of the operations that are not running *)

PipeIdle ==
    /\ rois = <<>>
    /\ graph = EmptyDict
    /\ colors = EmptyDict
    /\ colorKeys = <<>>
    /\ saturation = EmptyDict
    /\ degrees = EmptyDict
    /\ uncolored = {}
    /\ v = NoVertex
    /\ sets = EmptyDict
    /\ result = FALSE
    /\ geos = NoFailure
    /\ zorder = <<>>

LoadIdle ==
    /\ ds = Dataset(FALSE, <<>>, FALSE, <<>>)
    /\ roi_names_filter = NoFilter
    /\ z_tol = 1
    /\ roi_objs = <<>>
    /\ valid_rois = <<>>
    /\ error = "None"

AddIdle ==
    /\ roi_obj = ROI(0, "", EmptyDict)
    /\ arg_z = 0
    /\ arg_xy = <<>>

\* an integer point as an exact value
Exact(p) == [num |-> p, den |-> <<1, 1, 1>>]

IndexIdle ==
    /\ coord = Exact(<<0, 0, 0>>)
    /\ coord_kind = "patient"
    /\ coord_start = Exact(<<0, 0, 0>>)
    /\ hops = 0

NavIdle ==
    /\ volume = <<>>
    /\ slice_index = 0
    /\ slider_maximum = 0
    /\ slider_value = 0
    /\ pending_update = FALSE

DialogIdle ==
    /\ selected_rois = {}
    /\ progress_dialog = "None"
    /\ closed_by = "nobody"
    /\ events = <<>>
    /\ gui_pc = "idle"
    /\ gui_arg = <<>>
    /\ processing_result = <<>>
    /\ sent = 0
    /\ finished_emits = 0
    /\ gui_error = "none"
    /\ message = "none"

MaskIdle ==
    /\ rt_rois = <<>>
    /\ origin = <<0, 0, 0>>
    /\ spacing = <<1, 1, 1>>
    /\ direction = <<<<1, 0, 0>>, <<0, 1, 0>>, <<0, 0, 1>>>>
    /\ volume_shape = <<0, 0, 0>>
    /\ slice_masks = <<>>
    /\ per_slice = EmptyDict
    /\ roi_idx = 0
    /\ contour_idx = 0
    /\ pivot = 0

-----------------------------------------------------------------------------
(* The pipeline of main() / run_task_thread: build, colour, split *)

Init ==
    /\ rois \in UNION {RoiLists(n, Names, PipelineMaps) : n \in 1..MaxRois}
    /\ graph = EmptyDict
    /\ colors = EmptyDict
    /\ colorKeys = <<>>
    /\ saturation = EmptyDict
    /\ degrees = EmptyDict
    /\ uncolored = {}
    /\ v = NoVertex
    /\ sets = EmptyDict
    /\ result = FALSE
    /\ geos = NoFailure
    /\ zorder = <<>>
    /\ LoadIdle
    /\ AddIdle
    /\ MaskIdle
    /\ IndexIdle
    /\ DialogIdle
    /\ NavIdle
    /\ pc = "build"

BuildConflictGraph ==
    /\ pc = "build"
    /\ \E zs \in Orders(ZLevels), g \in GeosOutcomes(PipelinePolys, PipelinePolys) :
          /\ graph' = build_conflict_graph(rois, zs, g)
          /\ rois' = rois_after_build(rois, zs, g)
    /\ pc' = "dsatur"
    /\ UNCHANGED <<colors, colorKeys, saturation, degrees, uncolored, v,
                   sets, result, geos, zorder>>
    /\ UNCHANGED <<loadVars, addVars, maskVars, indexVars, dialogVars, navVars>>

DsaturInit ==
    /\ pc = "dsatur"
    /\ colors' = EmptyDict
    /\ colorKeys' = <<>>
    /\ saturation' = [x \in DOMAIN graph |-> 0]
    /\ degrees' = [x \in DOMAIN graph |-> Cardinality(graph[x])]
    /\ uncolored' = DOMAIN graph
    /\ pc' = "loop"
    /\ UNCHANGED <<rois, graph, v, sets, result, geos, zorder>>
    /\ UNCHANGED <<loadVars, addVars, maskVars, indexVars, dialogVars, navVars>>

\* uncolored.remove(v) left out
RemoveNothing(unc, x) == unc

\* what one loop iteration leaves in uncolored
Remove(unc, x) == unc \ {x}

\* the loop over graph[x] left out
SaturationKept(sat, gr, cols, unc, x) == sat

\* for n in graph[x]: if n in uncolored: saturation[n] = len(used)
SaturationAfter(sat, gr, cols, unc, x) ==
    [n \in DOMAIN sat |->
        IF n \in gr[x] /\ n \in unc
        THEN Cardinality(UsedColors(gr, cols, n))
        ELSE sat[n]]

DsaturStep ==
    /\ pc = "loop"
    /\ uncolored # {}
    /\ \E x \in MaxCandidates(uncolored, saturation, degrees) :
          LET color == FirstFree(UsedColors(graph, colors, x), 0)
              cols == SetColor(colors, x, color)
          IN  /\ v' = x
              /\ colors' = cols
              /\ colorKeys' = Append(colorKeys, x)
              /\ saturation' = SaturationAfter(saturation, graph, cols,
                                                uncolored, x)
              /\ uncolored' = Remove(uncolored, x)
    /\ UNCHANGED <<rois, graph, degrees, sets, result, geos, zorder, pc>>
    /\ UNCHANGED <<loadVars, addVars, maskVars, indexVars, dialogVars, navVars>>

DsaturReturn ==
    /\ pc = "loop"
    /\ uncolored = {}
    /\ pc' = "split"
    /\ UNCHANGED <<rois, graph, colors, colorKeys, saturation, degrees,
                   uncolored, v, sets, result, geos, zorder>>
    /\ UNCHANGED <<loadVars, addVars, maskVars, indexVars, dialogVars, navVars>>

SplitIntoSets ==
    /\ pc = "split"
    /\ sets' = split_into_sets(colors, colorKeys)
    /\ pc' = "done"
    /\ UNCHANGED <<rois, graph, colors, colorKeys, saturation, degrees,
                   uncolored, v, result, geos, zorder>>
    /\ UNCHANGED <<loadVars, addVars, maskVars, indexVars, dialogVars, navVars>>

Next ==
    \/ BuildConflictGraph
    \/ DsaturInit
    \/ DsaturStep
    \/ DsaturReturn
    \/ SplitIntoSets

Spec == Init /\ [][Next]_vars

\* dsatur_coloring is one sequential thread of control: a loop iteration
\* that can be taken is taken, and so is the return after the loop
FairSpec ==
    Init /\ [][Next]_vars /\ WF_vars(DsaturStep) /\ WF_vars(DsaturReturn)

-----------------------------------------------------------------------------
(* One call roi_intersect(rois[0], rois[1]) on two ROIs *)

InitGeom ==
    /\ rois \in {<<ROI(1, "A", ma), ROI(2, "B", mb)>> : ma, mb \in GeomMaps}
    /\ graph = EmptyDict
    /\ colors = EmptyDict
    /\ colorKeys = <<>>
    /\ saturation = EmptyDict
    /\ degrees = EmptyDict
    /\ uncolored = {}
    /\ v = NoVertex
    /\ sets = EmptyDict
    /\ result = FALSE
    /\ geos = NoFailure
    /\ zorder = <<>>
    /\ LoadIdle
    /\ AddIdle
    /\ MaskIdle
    /\ IndexIdle
    /\ DialogIdle
    /\ NavIdle
    /\ pc = "call"

RoiIntersect ==
    /\ pc = "call"
    /\ \E zs \in Orders(common_slices(rois[1], rois[2])),
          g \in GeosOutcomes(PolysOf(rois[1]), PolysOf(rois[2])) :
          /\ result' = roi_intersect(rois[1], rois[2], zs, g)
          /\ rois' = <<roi_a_after(rois[1], rois[2], zs, g),
                       roi_b_after(rois[1], rois[2], zs, g)>>
          /\ geos' = g
          /\ zorder' = zs
    /\ pc' = "returned"
    /\ UNCHANGED <<graph, colors, colorKeys, saturation, degrees,
                   uncolored, v, sets>>
    /\ UNCHANGED <<loadVars, addVars, maskVars, indexVars, dialogVars, navVars>>

NextGeom == RoiIntersect

SpecGeom == InitGeom /\ [][NextGeom]_vars

-----------------------------------------------------------------------------
(* One call load_rois_from_rtss(rtss_path, z_tol, roi_names_filter) on a    *)
(* file that exists and that pydicom reads as the dataset ds               *)

InitLoad ==
    /\ ds \in Datasets
    /\ roi_names_filter \in Filters
    /\ z_tol \in ZTols
    /\ roi_objs = <<>>
    /\ valid_rois = <<>>
    /\ error = "None"
    /\ PipeIdle
    /\ AddIdle
    /\ MaskIdle
    /\ IndexIdle
    /\ DialogIdle
    /\ NavIdle
    /\ pc = "load"

\* the call ends in one of the two raise statements
LoadRaise ==
    /\ pc = "load"
    /\ MissingSequence(ds) # "None"
    /\ error' = MissingSequence(ds)
    /\ pc' = "raised"
    /\ UNCHANGED <<ds, roi_names_filter, z_tol, roi_objs, valid_rois>>
    /\ UNCHANGED <<pipeVars, addVars, maskVars, indexVars, dialogVars, navVars>>

\* the call returns valid_rois
LoadReturn ==
    /\ pc = "load"
    /\ MissingSequence(ds) = "None"
    /\ roi_objs' = LoadedRois(ds, z_tol, roi_names_filter)
    /\ valid_rois' = ValidRois(LoadedRois(ds, z_tol, roi_names_filter))
    /\ pc' = "returned"
    /\ UNCHANGED <<ds, roi_names_filter, z_tol, error>>
    /\ UNCHANGED <<pipeVars, addVars, maskVars, indexVars, dialogVars, navVars>>

NextLoad == LoadRaise \/ LoadReturn

SpecLoad == InitLoad /\ [][NextLoad]_vars

-----------------------------------------------------------------------------
(* One call parse_rtstruct(path) on a file that pydicom reads as ds *)

InitParse ==
    /\ ds \in Datasets
    /\ roi_names_filter = NoFilter
    /\ z_tol = 1
    /\ roi_objs = <<>>
    /\ valid_rois = <<>>
    /\ error = "None"
    /\ PipeIdle
    /\ AddIdle
    /\ MaskIdle
    /\ IndexIdle
    /\ DialogIdle
    /\ NavIdle
    /\ pc = "parse"

\* the ValueError of reshape leaves parse_rtstruct
ParseRaise ==
    /\ pc = "parse"
    /\ ParseError(ds) # "None"
    /\ error' = ParseError(ds)
    /\ pc' = "raised"
    /\ UNCHANGED <<ds, roi_names_filter, z_tol, roi_objs, valid_rois>>
    /\ UNCHANGED <<pipeVars, addVars, maskVars, indexVars, dialogVars, navVars>>

\* parse_rtstruct returns rois
ParseReturn ==
    /\ pc = "parse"
    /\ ParseError(ds) = "None"
    /\ rt_rois' = parse_rtstruct(ds)
    /\ pc' = "parsed"
    /\ UNCHANGED <<origin, spacing, direction, volume_shape, slice_masks,
                   per_slice, roi_idx, contour_idx, pivot>>
    /\ UNCHANGED <<pipeVars, loadVars, addVars, indexVars, dialogVars, navVars>>

NextParse == ParseRaise \/ ParseReturn

SpecParse == InitParse /\ [][NextParse]_vars

-----------------------------------------------------------------------------
(* One call contours_to_slice_masks(rois, origin, spacing, direction,       *)
(* volume_shape), a step for each contour                                   *)

InitMask ==
    /\ rt_rois \in MaskRois
    /\ \E geo \in Geometries :
          origin = geo[1] /\ spacing = geo[2] /\ direction = geo[3]
    /\ volume_shape = VolumeShape
    /\ slice_masks = <<>>
    /\ per_slice = EmptyDict
    /\ roi_idx = 1
    /\ contour_idx = 1
    /\ pivot \in Pivots(direction)
    /\ PipeIdle
    /\ LoadIdle
    /\ AddIdle
    /\ IndexIdle
    /\ DialogIdle
    /\ NavIdle
    /\ pc = "mask"

\* a contour of the region is left
MoreContours ==
    /\ roi_idx <= Len(rt_rois)
    /\ contour_idx <= Len(rt_rois[roi_idx][2])

\* patient_to_index raises on the first vertex: LinAlgError leaves
\* contours_to_slice_masks
MaskRaise ==
    /\ pc = "mask"
    /\ MoreContours
    /\ Raises(direction)
    /\ error' = "LinAlgError"
    /\ pc' = "raised"
    /\ UNCHANGED <<ds, roi_names_filter, z_tol, roi_objs, valid_rois>>
    /\ UNCHANGED <<pipeVars, addVars, maskVars, indexVars, dialogVars, navVars>>

\* one iteration of "for contour in contours"
MaskContour ==
    /\ pc = "mask"
    /\ MoreContours
    /\ ~Raises(direction)
    /\ per_slice' = mask_contour(per_slice, rt_rois[roi_idx][2][contour_idx],
                                 origin, spacing, direction, volume_shape)
    /\ contour_idx' = contour_idx + 1
    /\ UNCHANGED <<rt_rois, origin, spacing, direction, volume_shape,
                   slice_masks, roi_idx, pivot, pc>>
    /\ UNCHANGED <<pipeVars, loadVars, addVars, indexVars, dialogVars, navVars>>

\* slice_masks[roi_name] = per_slice, and per_slice = {} for the next region
MaskStoreRoi ==
    /\ pc = "mask"
    /\ roi_idx <= Len(rt_rois)
    /\ contour_idx > Len(rt_rois[roi_idx][2])
    /\ slice_masks' = DictPut(slice_masks, rt_rois[roi_idx][1], per_slice)
    /\ per_slice' = EmptyDict
    /\ roi_idx' = roi_idx + 1
    /\ contour_idx' = 1
    /\ UNCHANGED <<rt_rois, origin, spacing, direction, volume_shape, pivot,
                   pc>>
    /\ UNCHANGED <<pipeVars, loadVars, addVars, indexVars, dialogVars, navVars>>

\* return slice_masks
MaskReturn ==
    /\ pc = "mask"
    /\ roi_idx > Len(rt_rois)
    /\ pc' = "masked"
    /\ UNCHANGED <<pipeVars, loadVars, addVars, maskVars, indexVars, dialogVars, navVars>>

NextMask == MaskRaise \/ MaskContour \/ MaskStoreRoi \/ MaskReturn

SpecMask == InitMask /\ [][NextMask]_vars

-----------------------------------------------------------------------------
(* Calls of patient_to_index and indices_to_patient, each on the value the  *)
(* call before it returned                                                  *)

InitIndex ==
    /\ \E geo \in IndexGeometries :
          origin = geo[1][1] /\ spacing = geo[1][2] /\ direction = geo[2]
    /\ rt_rois = <<>>
    /\ volume_shape = <<0, 0, 0>>
    /\ slice_masks = <<>>
    /\ per_slice = EmptyDict
    /\ roi_idx = 0
    /\ contour_idx = 0
    /\ pivot = 0
    /\ \E p \in IndexPoints : coord = Exact(p) /\ coord_start = Exact(p)
    /\ coord_kind \in {"patient", "index"}
    /\ hops = 0
    /\ PipeIdle
    /\ LoadIdle
    /\ AddIdle
    /\ DialogIdle
    /\ NavIdle
    /\ pc = "transform"

PatientToIndex ==
    /\ pc = "transform"
    /\ hops < 2
    /\ coord_kind = "patient"
    /\ IsWhole(coord)
    /\ ~Singular(direction)
    /\ coord' = patient_to_index(Whole(coord), origin, spacing, direction)
    /\ coord_kind' = "index"
    /\ hops' = hops + 1
    /\ UNCHANGED <<coord_start, pc>>
    /\ UNCHANGED <<pipeVars, loadVars, addVars, maskVars, dialogVars, navVars>>

IndicesToPatient ==
    /\ pc = "transform"
    /\ hops < 2
    /\ coord_kind = "index"
    /\ coord' = indices_to_patient(coord, origin, spacing, direction)
    /\ coord_kind' = "patient"
    /\ hops' = hops + 1
    /\ UNCHANGED <<coord_start, pc>>
    /\ UNCHANGED <<pipeVars, loadVars, addVars, maskVars, dialogVars, navVars>>

NextIndex == PatientToIndex \/ IndicesToPatient

SpecIndex == InitIndex /\ [][NextIndex]_vars

-----------------------------------------------------------------------------
(* viewer/rtss_split_dialog.py: RTSSSplitDialog.  The GUI thread runs       *)
(* run_process and the slots of the three signals; the thread run_process   *)
(* starts runs run_task_thread, whose state is pc and the pipeline's        *)
(* variables.  A signal emitted in the worker is queued for the GUI thread. *)
(* A thread can be switched between any two reads of self.progress_dialog.  *)
(* log_signal is left out of the queue: log_message reads no field.         *)

\* self.rois_data of the dialog: one ROI, two ROIs that overlap, two that do
\* not, and three of which the middle one overlaps both others
DialogRoiData ==
    {<<ROI(1, "A", 1 :> <<PolyP>>)>>,
     <<ROI(1, "A", 1 :> <<PolyP>>), ROI(2, "B", 1 :> <<PolyP>>)>>,
     <<ROI(1, "A", 1 :> <<PolyP>>), ROI(2, "B", 2 :> <<PolyP>>)>>,
     <<ROI(1, "A", 1 :> <<PolyP>>),
       ROI(2, "B", (1 :> <<PolyP>>) @@ (2 :> <<PolyP>>)),
       ROI(3, "C", 2 :> <<PolyP>>)>>}

\* nothing selected
FilteredNone(rs, selected) == <<>>

\* [roi for roi in self.rois_data if roi.name in selected_rois]
Filtered(rs, selected) == SelectSeq(rs, LAMBDA roi : roi.name \in selected)

Progress(value) == [kind |-> "progress", value |-> <<value>>]

Finished(roi_sets) == [kind |-> "finished", value |-> <<roi_sets>>]

InitDialog ==
    /\ rois \in DialogRoiData
    /\ graph = EmptyDict
    /\ colors = EmptyDict
    /\ colorKeys = <<>>
    /\ saturation = EmptyDict
    /\ degrees = EmptyDict
    /\ uncolored = {}
    /\ v = NoVertex
    /\ sets = EmptyDict
    /\ result = FALSE
    /\ geos = NoFailure
    /\ zorder = <<>>
    /\ selected_rois \in SUBSET {rois[k].name : k \in DOMAIN rois}
    /\ progress_dialog = "None"
    /\ closed_by = "nobody"
    /\ events = <<>>
    /\ gui_pc = "idle"
    /\ gui_arg = <<>>
    /\ processing_result = <<>>
    /\ sent = 0
    /\ finished_emits = 0
    /\ gui_error = "none"
    /\ message = "none"
    /\ LoadIdle
    /\ AddIdle
    /\ MaskIdle
    /\ IndexIdle
    /\ NavIdle
    /\ pc = "run"

\* run_process with nothing checked: a warning and no worker
RunProcessWarns ==
    /\ pc = "run"
    /\ gui_pc = "idle"
    /\ selected_rois = {}
    /\ message = "none"
    /\ message' = "warning"
    /\ UNCHANGED <<selected_rois, progress_dialog, closed_by, events, gui_pc,
                   gui_arg, processing_result, sent, finished_emits,
                   gui_error, pc>>
    /\ UNCHANGED <<pipeVars, loadVars, addVars, maskVars, indexVars, navVars>>

\* run_process: the progress dialog is shown and the worker started
RunProcess ==
    /\ pc = "run"
    /\ gui_pc = "idle"
    /\ selected_rois # {}
    /\ progress_dialog' = "open"
    /\ pc' = "started"
    /\ UNCHANGED <<selected_rois, closed_by, events, gui_pc, gui_arg,
                   processing_result, sent, finished_emits, gui_error,
                   message>>
    /\ UNCHANGED <<pipeVars, loadVars, addVars, maskVars, indexVars, navVars>>

\* the cancel button of the progress dialog: QProgressDialog hides itself;
\* nothing is connected to its canceled signal
CancelClicked ==
    /\ gui_pc = "idle"
    /\ progress_dialog = "open"
    /\ progress_dialog' = "hidden"
    /\ UNCHANGED <<selected_rois, closed_by, events, gui_pc, gui_arg,
                   processing_result, sent, finished_emits, gui_error,
                   message, pc>>
    /\ UNCHANGED <<pipeVars, loadVars, addVars, maskVars, indexVars, navVars>>

\* the GUI thread takes the next queued signal and enters its slot, up to
\* the slot's "if self.progress_dialog:"
Dispatch ==
    /\ gui_pc = "idle"
    /\ events # <<>>
    /\ events' = Tail(events)
    /\ gui_arg' = Head(events).value
    /\ gui_pc' = IF Head(events).kind = "progress"
                 THEN (IF progress_dialog # "None"
                       THEN "update_progress" ELSE "idle")
                 ELSE (IF progress_dialog # "None"
                       THEN "finished_close" ELSE "finished_store")
    /\ UNCHANGED <<selected_rois, progress_dialog, closed_by,
                   processing_result, sent, finished_emits, gui_error,
                   message, pc>>
    /\ UNCHANGED <<pipeVars, loadVars, addVars, maskVars, indexVars, navVars>>

\* update_progress: self.progress_dialog.setValue(value); the dialog resets
\* and hides itself at its maximum
UpdateProgress ==
    /\ gui_pc = "update_progress"
    /\ gui_pc' = "idle"
    /\ IF progress_dialog = "None"
       THEN gui_error' = "AttributeError" /\ UNCHANGED progress_dialog
       ELSE /\ progress_dialog' =
                  IF progress_dialog = "open" /\ gui_arg = <<100>>
                  THEN "hidden" ELSE progress_dialog
            /\ UNCHANGED gui_error
    /\ UNCHANGED <<selected_rois, closed_by, events, gui_arg,
                   processing_result, sent, finished_emits, message, pc>>
    /\ UNCHANGED <<pipeVars, loadVars, addVars, maskVars, indexVars, navVars>>

\* on_processing_finished: self.progress_dialog.close()
FinishedClose ==
    /\ gui_pc = "finished_close"
    /\ IF progress_dialog = "None"
       THEN /\ gui_error' = "AttributeError"
            /\ gui_pc' = "idle"
            /\ UNCHANGED <<progress_dialog, closed_by>>
       ELSE /\ progress_dialog' = "closed"
            /\ closed_by' = "gui"
            /\ gui_pc' = "finished_clear"
            /\ UNCHANGED gui_error
    /\ UNCHANGED <<selected_rois, events, gui_arg, processing_result, sent,
                   finished_emits, message, pc>>
    /\ UNCHANGED <<pipeVars, loadVars, addVars, maskVars, indexVars, navVars>>

\* on_processing_finished: self.progress_dialog = None
FinishedClear ==
    /\ gui_pc = "finished_clear"
    /\ progress_dialog' = "None"
    /\ gui_pc' = "finished_store"
    /\ UNCHANGED <<selected_rois, closed_by, events, gui_arg,
                   processing_result, sent, finished_emits, gui_error,
                   message, pc>>
    /\ UNCHANGED <<pipeVars, loadVars, addVars, maskVars, indexVars, navVars>>

\* on_processing_finished: self.processing_result = result and the summary
FinishedStore ==
    /\ gui_pc = "finished_store"
    /\ processing_result' = gui_arg
    /\ message' = "information"
    /\ gui_pc' = "idle"
    /\ UNCHANGED <<selected_rois, progress_dialog, closed_by, events,
                   gui_arg, sent, finished_emits, gui_error, pc>>
    /\ UNCHANGED <<pipeVars, loadVars, addVars, maskVars, indexVars, navVars>>

\* run_task_thread up to build_conflict_graph: the ROIs are filtered
WorkerBegin ==
    /\ pc = "started"
    /\ rois' = Filtered(rois, selected_rois)
    /\ IF Len(rois') = 0
       THEN /\ events' = Append(events, Progress(10))
            /\ sent' = 10
            /\ pc' = "returned"
       ELSE /\ events' = events \o <<Progress(10), Progress(30)>>
            /\ sent' = 30
            /\ pc' = "build"
    /\ UNCHANGED <<graph, colors, colorKeys, saturation, degrees, uncolored,
                   v, sets, result, geos, zorder>>
    /\ UNCHANGED <<selected_rois, progress_dialog, closed_by, gui_pc,
                   gui_arg, processing_result, finished_emits, gui_error,
                   message>>
    /\ UNCHANGED <<loadVars, addVars, maskVars, indexVars, navVars>>

\* self.progress_signal.emit(value) at the position at of the worker
EmitProgress(at, value) ==
    /\ pc = at
    /\ sent < value
    /\ events' = Append(events, Progress(value))
    /\ sent' = value
    /\ UNCHANGED <<selected_rois, progress_dialog, closed_by, gui_pc,
                   gui_arg, processing_result, finished_emits, gui_error,
                   message, pc>>
    /\ UNCHANGED <<pipeVars, loadVars, addVars, maskVars, indexVars, navVars>>

\* the keys of roi_sets are ints, and pyqtSignal(dict) carries a map with
\* str keys: emit takes the dict or raises TypeError
EmitRaises(roi_sets) == DOMAIN roi_sets # {}

\* self.finished_signal.emit(roi_sets) returns
EmitFinished ==
    /\ pc = "done"
    /\ sent = 100
    /\ events' = Append(events, Finished(sets))
    /\ finished_emits' = finished_emits + 1
    /\ pc' = "returned"
    /\ UNCHANGED <<selected_rois, progress_dialog, closed_by, gui_pc,
                   gui_arg, processing_result, sent, gui_error, message>>
    /\ UNCHANGED <<pipeVars, loadVars, addVars, maskVars, indexVars, navVars>>

\* self.finished_signal.emit(roi_sets) raises: on to "except Exception"
EmitFinishedRaises ==
    /\ pc = "done"
    /\ sent = 100
    /\ EmitRaises(sets)
    /\ pc' = "except"
    /\ UNCHANGED dialogVars
    /\ UNCHANGED <<pipeVars, loadVars, addVars, maskVars, indexVars, navVars>>

\* the worker's handler: "if self.progress_dialog:"
ExceptCheck ==
    /\ pc = "except"
    /\ pc' = IF progress_dialog # "None" THEN "except_close" ELSE "returned"
    /\ UNCHANGED dialogVars
    /\ UNCHANGED <<pipeVars, loadVars, addVars, maskVars, indexVars, navVars>>

\* the worker's handler: self.progress_dialog.close()
ExceptClose ==
    /\ pc = "except_close"
    /\ IF progress_dialog = "None"
       THEN /\ gui_error' = "AttributeError in worker"
            /\ pc' = "returned"
            /\ UNCHANGED <<progress_dialog, closed_by>>
       ELSE /\ progress_dialog' = "closed"
            /\ closed_by' = "worker"
            /\ pc' = "except_clear"
            /\ UNCHANGED gui_error
    /\ UNCHANGED <<selected_rois, events, gui_pc, gui_arg, processing_result,
                   sent, finished_emits, message>>
    /\ UNCHANGED <<pipeVars, loadVars, addVars, maskVars, indexVars, navVars>>

\* the worker's handler: self.progress_dialog = None
ExceptClear ==
    /\ pc = "except_clear"
    /\ progress_dialog' = "None"
    /\ pc' = "returned"
    /\ UNCHANGED <<selected_rois, closed_by, events, gui_pc, gui_arg,
                   processing_result, sent, finished_emits, gui_error,
                   message>>
    /\ UNCHANGED <<pipeVars, loadVars, addVars, maskVars, indexVars, navVars>>

\* the steps of the GUI thread
GuiNext ==
    \/ RunProcessWarns
    \/ RunProcess
    \/ CancelClicked
    \/ Dispatch
    \/ UpdateProgress
    \/ FinishedClose
    \/ FinishedClear
    \/ FinishedStore

\* the steps of run_task_thread, the progress values between the calls
WorkerNext ==
    \/ WorkerBegin
    \/ BuildConflictGraph
    \/ EmitProgress("dsatur", 60)
    \/ (sent = 60 /\ DsaturInit)
    \/ DsaturStep
    \/ DsaturReturn
    \/ EmitProgress("split", 80)
    \/ (sent = 80 /\ SplitIntoSets)
    \/ EmitProgress("done", 90)
    \/ (sent = 90 /\ EmitProgress("done", 100))
    \/ EmitFinished
    \/ EmitFinishedRaises
    \/ ExceptCheck
    \/ ExceptClose
    \/ ExceptClear

NextDialog == GuiNext \/ WorkerNext

SpecDialog == InitDialog /\ [][NextDialog]_vars

\* the step BuildConflictGraph, told by the worker's position alone
BuildReturns == pc = "build" /\ pc' = "dsatur"

\* the operating system runs the worker thread until it returns
FairSpecDialog ==
    /\ SpecDialog
    /\ WF_vars(WorkerBegin)
    /\ WF_pc(BuildReturns)
    /\ WF_vars(EmitProgress("dsatur", 60))
    /\ WF_vars(sent = 60 /\ DsaturInit)
    /\ WF_vars(DsaturStep)
    /\ WF_vars(DsaturReturn)
    /\ WF_vars(EmitProgress("split", 80))
    /\ WF_vars(sent = 80 /\ SplitIntoSets)
    /\ WF_vars(EmitProgress("done", 90))
    /\ WF_vars(sent = 90 /\ EmitProgress("done", 100))
    /\ WF_vars(EmitFinished \/ EmitFinishedRaises)

-----------------------------------------------------------------------------
(* viewer/app_mainwindow.py: slice navigation in MainWindow.  All handlers  *)
(* run on the GUI thread, one after the other.  A QSlider keeps its value   *)
(* between its minimum and maximum and calls on_slider_changed when the     *)
(* value changes.                                                           *)

Clamp(x, lo, hi) == IF x < lo THEN lo ELSE IF x > hi THEN hi ELSE x

\* the series open_folder lists have more than one file, so two slices or
\* more; a colour series is read as an array (z, y, x, 3)
SeriesShapes == (2..MaxDepth) \X {3, 4}

\* self.slice_index after self.slider.setValue(val) with self.slice_index
\* = idx before it: on_slider_changed runs when the value changes
AfterSetValue(idx, val) ==
    IF Clamp(val, 0, slider_maximum) # slider_value
    THEN Clamp(val, 0, slider_maximum)
    ELSE idx

\* update_viewer(), which on_slider_changed calls
PendingAfterSetValue(val) ==
    pending_update \/ Clamp(val, 0, slider_maximum) # slider_value

InitNav ==
    /\ volume = <<>>
    /\ slice_index = 0
    /\ slider_maximum = 0
    /\ slider_value = 0
    /\ pending_update = FALSE
    /\ PipeIdle
    /\ LoadIdle
    /\ AddIdle
    /\ MaskIdle
    /\ IndexIdle
    /\ DialogIdle
    /\ pc = "window"

\* on_series_selected: self.volume is set before "z, y, x = vol.shape",
\* which raises ValueError for an array that has not 3 axes; the handler
\* catches it and the other fields stay as they were
OnSeriesSelected ==
    /\ pc = "window"
    /\ \E shape \in SeriesShapes :
          LET z == shape[1]
          IN  /\ volume' = shape
              /\ IF shape[2] # 3
                 THEN UNCHANGED <<slice_index, slider_maximum, slider_value,
                                  pending_update>>
                 ELSE /\ slider_maximum' = z - 1
                      /\ slider_value' = z \div 2
                      /\ slice_index' = z \div 2
                      /\ pending_update' = TRUE
    /\ UNCHANGED pc
    /\ UNCHANGED <<pipeVars, loadVars, addVars, maskVars, indexVars,
                   dialogVars>>

\* on_wheel_slice(step): the wheel (1, -1), Up, Down, PageUp (5), PageDown
OnWheelSlice ==
    /\ pc = "window"
    /\ volume # <<>>
    /\ \E step \in {1, -1, 5, -5} :
          LET idx == Clamp(slice_index + step, 0, volume[1] - 1)
          IN  /\ slice_index' = AfterSetValue(idx, idx)
              /\ slider_value' = Clamp(idx, 0, slider_maximum)
              /\ pending_update' = PendingAfterSetValue(idx)
    /\ UNCHANGED <<volume, slider_maximum, pc>>
    /\ UNCHANGED <<pipeVars, loadVars, addVars, maskVars, indexVars,
                   dialogVars>>

\* goto_first_slice: Home
GotoFirstSlice ==
    /\ pc = "window"
    /\ volume # <<>>
    /\ slice_index' = AfterSetValue(0, 0)
    /\ slider_value' = Clamp(0, 0, slider_maximum)
    /\ pending_update' = PendingAfterSetValue(0)
    /\ UNCHANGED <<volume, slider_maximum, pc>>
    /\ UNCHANGED <<pipeVars, loadVars, addVars, maskVars, indexVars,
                   dialogVars>>

\* goto_last_slice: End
GotoLastSlice ==
    /\ pc = "window"
    /\ volume # <<>>
    /\ slice_index' = AfterSetValue(volume[1] - 1, volume[1] - 1)
    /\ slider_value' = Clamp(volume[1] - 1, 0, slider_maximum)
    /\ pending_update' = PendingAfterSetValue(volume[1] - 1)
    /\ UNCHANGED <<volume, slider_maximum, pc>>
    /\ UNCHANGED <<pipeVars, loadVars, addVars, maskVars, indexVars,
                   dialogVars>>

\* the user moves the slider: on_slider_changed(val)
OnSliderChanged ==
    /\ pc = "window"
    /\ \E val \in 0..slider_maximum :
          /\ val # slider_value
          /\ slider_value' = val
          /\ slice_index' = val
    /\ pending_update' = TRUE
    /\ UNCHANGED <<volume, slider_maximum, pc>>
    /\ UNCHANGED <<pipeVars, loadVars, addVars, maskVars, indexVars,
                   dialogVars>>

\* _delayed_update, when the update timer fires
DelayedUpdate ==
    /\ pc = "window"
    /\ pending_update
    /\ pending_update' = FALSE
    /\ slice_index' = IF volume = <<>> THEN slice_index
                      ELSE Clamp(slice_index, 0, volume[1] - 1)
    /\ UNCHANGED <<volume, slider_maximum, slider_value, pc>>
    /\ UNCHANGED <<pipeVars, loadVars, addVars, maskVars, indexVars,
                   dialogVars>>

NextNav ==
    \/ OnSeriesSelected
    \/ OnWheelSlice
    \/ GotoFirstSlice
    \/ GotoLastSlice
    \/ OnSliderChanged
    \/ DelayedUpdate

SpecNav == InitNav /\ [][NextNav]_vars

-----------------------------------------------------------------------------
(* One call roi_obj.add_polygon(z, xy) *)

InitAdd ==
    /\ roi_obj \in {ROI(1, "A", m) : m \in AddMaps}
    /\ arg_z \in ZLevels
    /\ arg_xy \in XYLists
    /\ PipeIdle
    /\ LoadIdle
    /\ MaskIdle
    /\ IndexIdle
    /\ DialogIdle
    /\ NavIdle
    /\ pc = "add"

AddPolygon ==
    /\ pc = "add"
    /\ roi_obj' = [roi_obj EXCEPT !.slices = add_polygon(@, arg_z, arg_xy)]
    /\ pc' = "added"
    /\ UNCHANGED <<arg_z, arg_xy>>
    /\ UNCHANGED <<pipeVars, loadVars, maskVars, indexVars, dialogVars, navVars>>

NextAdd == AddPolygon

SpecAdd == InitAdd /\ [][NextAdd]_vars

-----------------------------------------------------------------------------
(* Properties *)

NameOf(k) == rois[k].name

Built == pc \in {"dsatur", "loop", "split", "done"}

Returned == pc \in {"split", "done"}

\* the members of a list
Elems(s) == {s[k] : k \in DOMAIN s}

\* the places <<colour, position>> of the partition that hold the name x
PlacesOf(x) ==
    {cp \in UNION {{c} \X DOMAIN sets[c] : c \in DOMAIN sets} :
        sets[cp[1]][cp[2]] = x}

\* the graph is the path a - b - c
IsPath(a, b, c) ==
    /\ a # b /\ b # c /\ a # c
    /\ DOMAIN graph = {a, b, c}
    /\ graph[a] = {b} /\ graph[b] = {a, c} /\ graph[c] = {b}

\* C1: for the conflict graph build_conflict_graph produces and the colour
\* assignment dsatur_coloring returns for it, every edge (a, b) of the graph
\* has color(a) # color(b).
C1_EdgesGetDifferentColors ==
    Returned =>
        \A a \in DOMAIN graph : \A b \in graph[a] : colors[a] # colors[b]

\* C2: the graph returned by build_conflict_graph is symmetric: for all
\* vertex names a and b, b is in graph[a] if and only if a is in graph[b].
C2_GraphSymmetric ==
    Built =>
        \A a \in DOMAIN graph : \A b \in DOMAIN graph \cup graph[a] :
            /\ b \in DOMAIN graph
            /\ (b \in graph[a] <=> a \in graph[b])

C2_Witness ==
    /\ Built
    /\ \E a \in DOMAIN graph : \E b \in graph[a] : a # b
    /\ \E a \in DOMAIN graph : graph[a] = {}

\* C3: the graph returned by build_conflict_graph has no self-loops: no
\* vertex name a is in graph[a], whatever the input ROIs (names may repeat).
C3_NoSelfLoops ==
    Built => \A a \in DOMAIN graph : a \notin graph[a]

\* C4: split_into_sets(dsatur_coloring(graph)) is a partition of the vertex
\* set: every vertex is at exactly one place of exactly one group, and the
\* groups hold nothing but vertices of the graph.
C4_PartitionComplete ==
    pc = "done" =>
        /\ \A x \in DOMAIN graph : Cardinality(PlacesOf(x)) = 1
        /\ \A c \in DOMAIN sets : Elems(sets[c]) \subseteq DOMAIN graph

C4_Witness ==
    /\ pc = "done"
    /\ Cardinality(DOMAIN graph) = 3
    /\ \E c \in DOMAIN sets : Len(sets[c]) = 2

\* the keys of the graph dict in insertion order: the ROI names in list
\* order, each at its first occurrence
RECURSIVE InsertionOrder(_, _)
InsertionOrder(k, seen) ==
    IF k > Len(rois) THEN <<>>
    ELSE IF NameOf(k) \in seen THEN InsertionOrder(k + 1, seen)
    ELSE <<NameOf(k)>> \o InsertionOrder(k + 1, seen \cup {NameOf(k)})

\* the first element of the list s that is in S
FirstIn(s, S) == s[SetMin({k \in DOMAIN s : s[k] \in S})]

\* the colour assignment of the run that breaks every tie on (saturation,
\* degree) by the insertion order `order`
RECURSIVE ColoringInOrder(_, _, _, _)
ColoringInOrder(cols, sat, unc, order) ==
    IF unc = {} THEN cols
    ELSE LET x == FirstIn(order, MaxCandidates(unc, sat, degrees))
             cols2 == SetColor(cols, x, FirstFree(UsedColors(graph, cols, x), 0))
             sat2 == [n \in DOMAIN sat |->
                        IF n \in graph[x] /\ n \in unc
                        THEN Cardinality(UsedColors(graph, cols2, n))
                        ELSE sat[n]]
         IN  ColoringInOrder(cols2, sat2, unc \ {x}, order)

\* C5: colouring is deterministic: among the uncoloured vertices that tie on
\* (saturation, degree) the one picked is fixed by the insertion order of the
\* graph and not by the iteration order of the set, so every run on the same
\* graph returns the same colour assignment, the one of the insertion order.
C5_ColoringFixedByInsertionOrder ==
    Returned =>
        colors = ColoringInOrder(EmptyDict, [x \in DOMAIN graph |-> 0],
                                 DOMAIN graph, InsertionOrder(1, {}))

\* C6: dsatur_coloring terminates: each loop iteration colours exactly one
\* vertex that had no colour and removes it from uncolored, the loop is left,
\* and on return every vertex of the graph has a colour.
C6_DsaturTerminates ==
    /\ [][DsaturStep =>
            /\ v' \in uncolored /\ v' \notin DOMAIN colors
            /\ uncolored' = uncolored \ {v'}
            /\ DOMAIN colors' = DOMAIN colors \cup {v'}
            /\ \A n \in DOMAIN colors : colors'[n] = colors[n]]_vars
    /\ [](Returned => DOMAIN colors = DOMAIN graph /\ uncolored = {})
    /\ [](pc = "loop" => <>Returned)

C6_Witness ==
    /\ pc = "split"
    /\ Cardinality(DOMAIN colors) = 3
    /\ \E a \in DOMAIN graph : graph[a] # {}

\* C7: two ROIs whose sets of z keys are disjoint never get an edge in the
\* conflict graph, whatever their polygons.
C7_DisjointLevelsNoEdge ==
    Built =>
        \A i, j \in DOMAIN rois :
            (i # j /\ common_slices(rois[i], rois[j]) = {})
                => NameOf(j) \notin graph[NameOf(i)]

\* the polygon pairs of the two ROIs on a z level they share
SharedPairs(roi_a, roi_b) ==
    UNION {{<<roi_a.slices[z][i], roi_b.slices[z][j]>> :
                i \in DOMAIN roi_a.slices[z], j \in DOMAIN roi_b.slices[z]} :
           z \in common_slices(roi_a, roi_b)}

BoxesOverlap(pa, pb) ==
    /\ ~(bounds(pa).maxx < bounds(pb).minx \/ bounds(pb).maxx < bounds(pa).minx)
    /\ ~(bounds(pa).maxy < bounds(pb).miny \/ bounds(pb).maxy < bounds(pa).miny)

PositiveOverlap(roi_a, roi_b) ==
    \E pq \in SharedPairs(roi_a, roi_b) :
        BoxesOverlap(pq[1], pq[2]) /\ intersection_area(pq[1], pq[2]) > 0

\* C8 as stated: roi_intersect(a, b) is true if and only if a shared z level
\* holds a polygon of a and a polygon of b whose bounding boxes overlap on
\* both axes and whose intersection area is > 0, whatever the visiting order;
\* polygons that only touch never make the pair adjacent.
C8_TrueIffPositiveArea ==
    pc = "returned" => (result <=> PositiveOverlap(rois[1], rois[2]))

\* C8 amended: roi_intersect(a, b) is true if and only if a shared z level
\* holds a polygon of a and a polygon of b whose bounding boxes overlap on
\* both axes and for which either the intersection is computed and has area
\* > 0, or computing the intersection raises and pa.intersects(pb) returns
\* true; the result does not depend on the visiting order.
C8_TrueIffAreaOrFallback ==
    pc = "returned" =>
        (result <=>
            \E pq \in SharedPairs(rois[1], rois[2]) :
                /\ BoxesOverlap(pq[1], pq[2])
                /\ \/ /\ GeosMode(geos, pq[1], pq[2]) = "ok"
                      /\ intersection_area(pq[1], pq[2]) > 0
                   \/ /\ GeosMode(geos, pq[1], pq[2]) = "area_raises"
                      /\ intersects(pq[1], pq[2]))

\* the fallback decides: no polygon pair has positive area, one pair only
\* touches, its intersection raises, and the second level is visited first
C8_Witness ==
    /\ pc = "returned"
    /\ result
    /\ ~PositiveOverlap(rois[1], rois[2])
    /\ geos.mode = "area_raises"
    /\ Len(zorder) = 2 /\ zorder[1] = 2

\* roi_intersect finds nothing for the two ROIs, whatever shapely does
NeverIntersect(roi_a, roi_b) ==
    \A zs \in Orders(ZLevels), g \in GeosOutcomes(PipelinePolys, PipelinePolys) :
        ~roi_intersect(roi_a, roi_b, zs, g) /\ ~roi_intersect(roi_b, roi_a, zs, g)

\* C9: after build_conflict_graph(rois) the vertex set of the graph is the
\* set of the names of the ROIs, and an ROI that intersects no other ROI is
\* a vertex with an empty adjacency set.
C9_IsolatedRoiHasNoNeighbours ==
    Built =>
        /\ DOMAIN graph = {NameOf(k) : k \in DOMAIN rois}
        /\ \A i \in DOMAIN rois :
              (\A j \in DOMAIN rois \ {i} : NeverIntersect(rois[i], rois[j]))
                  => graph[NameOf(i)] = {}

\* C10: for three ROIs a, b, c whose conflict graph has exactly the edges
\* a - b and b - c the partition has exactly 2 groups, b alone in one of them
\* and a and c together in the other, under every tie-break.
C10_PathGivesTwoGroups ==
    (pc = "done" /\ Len(rois) = 3) =>
        \A a, b, c \in Names :
            IsPath(a, b, c) =>
                /\ Cardinality(DOMAIN sets) = 2
                /\ \E gb, gac \in DOMAIN sets :
                      /\ gb # gac
                      /\ sets[gb] = <<b>>
                      /\ Len(sets[gac]) = 2
                      /\ Elems(sets[gac]) = {a, c}

\* the path B - A - C, coloured A first and then C before B
C10_Witness ==
    /\ pc = "done"
    /\ Len(rois) = 3
    /\ IsPath("B", "A", "C")
    /\ colorKeys = <<"A", "C", "B">>


\* C18: build_conflict_graph with its roi_intersect calls, dsatur_coloring
\* and split_into_sets leave the list of regions and every region's z-level
\* mapping as they were: no step adds a z key to a region's defaultdict.
C18_RegionsReadOnly == [][rois' = rois]_vars

\* the graph was built over regions of which two share a level (their
\* polygon lists were read) and two have different keys
C18_Witness ==
    /\ pc = "done"
    /\ \E i, j \in DOMAIN rois :
          i < j /\ common_slices(rois[i], rois[j]) # {}
    /\ \E i, j \in DOMAIN rois :
          i < j /\ DOMAIN rois[i].slices # DOMAIN rois[j].slices


\* the load_rois_from_rtss call is over
LoadDone == pc \in {"raised", "returned"}

\* C11: load_rois_from_rtss raises an error and returns no collection
\* whenever StructureSetROISequence is absent from the dataset or is empty.
C11_NoDeclarationsRaises ==
    (/\ LoadDone
     /\ \/ ~ds.hasStructureSetROISequence
        \/ ds.StructureSetROISequence = <<>>)
    => (pc = "raised" /\ error # "None")


\* the numbers StructureSetROISequence declares
DeclaredNumbers(dataset) ==
    {dataset.StructureSetROISequence[k].ROINumber :
        k \in DOMAIN dataset.StructureSetROISequence}

UnknownGroup(dataset, group) ==
    group.ReferencedROINumber \notin DeclaredNumbers(dataset)

\* the dataset without the contour groups that refer to no declared number
WithoutUnknownGroups(dataset) ==
    LET Known(group) == ~UnknownGroup(dataset, group)
    IN  [dataset EXCEPT
            !.ROIContourSequence = SelectSeq(dataset.ROIContourSequence, Known)]

\* C12: a contour group whose ReferencedROINumber is no declared number is
\* skipped: the call returns without error, no region has that number, and
\* the regions are those the dataset gives without such groups, so that the
\* groups after it are still read and none of its contours is kept.
C12_UnknownGroupSkipped ==
    (/\ LoadDone
     /\ MissingSequence(ds) = "None"
     /\ \E k \in DOMAIN ds.ROIContourSequence :
           UnknownGroup(ds, ds.ROIContourSequence[k]))
    => /\ pc = "returned"
       /\ error = "None"
       /\ \A k \in DOMAIN roi_objs : roi_objs[k].number \in DeclaredNumbers(ds)
       /\ roi_objs = LoadedRois(WithoutUnknownGroups(ds), z_tol, roi_names_filter)
       /\ valid_rois =
             ValidRois(LoadedRois(WithoutUnknownGroups(ds), z_tol, roi_names_filter))

\* a group of an undeclared number with a square came first, a group of the
\* declared number 1 came after it and its region was returned
C12_Witness ==
    /\ pc = "returned"
    /\ Len(ds.ROIContourSequence) = 2
    /\ UnknownGroup(ds, ds.ROIContourSequence[1])
    /\ ds.ROIContourSequence[1].ContourSequence = <<Contour(DataSquareZ1)>>
    /\ ds.ROIContourSequence[2].ReferencedROINumber = 1
    /\ \E k \in DOMAIN valid_rois : valid_rois[k].number = 1

BadLength(contour) ==
    contour.hasContourData /\ Len(contour.ContourData) % 3 # 0

\* the dataset without the contours whose ContourData has a length that is
\* no multiple of 3
WithoutBadContours(dataset) ==
    LET Good(contour) == ~BadLength(contour)
    IN  [dataset EXCEPT
            !.ROIContourSequence =
                [k \in DOMAIN @ |->
                    [@[k] EXCEPT !.ContourSequence = SelectSeq(@, Good)]]]

\* C13: a contour whose ContourData has a length that is no multiple of 3 is
\* skipped: the call returns without error and the regions are those the
\* dataset gives without such contours, so that it adds no polygon and every
\* other contour is still accumulated.
C13_BadLengthContourSkipped ==
    (/\ LoadDone
     /\ MissingSequence(ds) = "None"
     /\ \E k \in DOMAIN ds.ROIContourSequence :
           \E c \in DOMAIN ds.ROIContourSequence[k].ContourSequence :
              BadLength(ds.ROIContourSequence[k].ContourSequence[c]))
    => /\ pc = "returned"
       /\ error = "None"
       /\ roi_objs = LoadedRois(WithoutBadContours(ds), z_tol, roi_names_filter)
       /\ valid_rois =
             ValidRois(LoadedRois(WithoutBadContours(ds), z_tol, roi_names_filter))

\* the group of region 1 held the bad contour and then a square, a second
\* group held a triangle of region 2, and both regions were returned
C13_Witness ==
    /\ pc = "returned"
    /\ Len(ds.ROIContourSequence) = 2
    /\ ds.ROIContourSequence[1].ReferencedROINumber = 1
    /\ ds.ROIContourSequence[1].ContourSequence =
          <<Contour(DataBadLength), Contour(DataSquareZ1)>>
    /\ ds.ROIContourSequence[2].ReferencedROINumber = 2
    /\ ds.ROIContourSequence[2].ContourSequence = <<Contour(DataTriangleZ2)>>
    /\ Len(valid_rois) = 2
    /\ \A k \in DOMAIN valid_rois :
          \A lv \in DOMAIN valid_rois[k].slices : Len(valid_rois[k].slices[lv]) = 1


\* C15: whenever a name filter is given to load_rois_from_rtss, every region
\* of the dict rois, and so every region returned, has a name that is in the
\* filter: a region of another name is never made.
C15_FilterKeepsOnlyListedNames ==
    (pc = "returned" /\ roi_names_filter.given)
    => /\ \A k \in DOMAIN roi_objs :
             NameIn(roi_objs[k].name, roi_names_filter.names)
       /\ \A k \in DOMAIN valid_rois :
             NameIn(valid_rois[k].name, roi_names_filter.names)

\* C16: every region load_rois_from_rtss returns has at least one z level,
\* every z level of it holds at least one polygon, and a region of the dict
\* rois is returned exactly when it holds a polygon.
C16_ReturnedRegionsHavePolygons ==
    pc = "returned"
    => /\ \A k \in DOMAIN valid_rois :
             /\ DOMAIN valid_rois[k].slices # {}
             /\ \A lv \in DOMAIN valid_rois[k].slices :
                   valid_rois[k].slices[lv] # <<>>
       /\ \A k \in DOMAIN roi_objs :
             (\E j \in DOMAIN valid_rois : valid_rois[j] = roi_objs[k])
             <=> (\E lv \in DOMAIN roi_objs[k].slices :
                     roi_objs[k].slices[lv] # <<>>)

\* of two declared regions one got a polygon and was returned, the other got
\* only contours that give no polygon and was left out
C16_Witness ==
    /\ pc = "returned"
    /\ Len(roi_objs) = 2
    /\ Len(valid_rois) = 1
    /\ Len(ds.ROIContourSequence) = 2
    /\ \E k \in DOMAIN ds.ROIContourSequence :
          /\ ds.ROIContourSequence[k].ContourSequence = <<Contour(DataTwoPoints)>>
          /\ ds.ROIContourSequence[k].ReferencedROINumber
                \notin {valid_rois[j].number : j \in DOMAIN valid_rois}
          /\ ds.ROIContourSequence[k].ReferencedROINumber
                \in {roi_objs[j].number : j \in DOMAIN roi_objs}


\* the number of polygons in a z-level mapping
RECURSIVE CountPolys(_)
CountPolys(slices) ==
    IF DOMAIN slices = {} THEN 0
    ELSE LET lv == CHOOSE k \in DOMAIN slices : TRUE
         IN  Len(slices[lv])
             + CountPolys([k \in DOMAIN slices \ {lv} |-> slices[k]])

\* new is old with the polygon poly appended under the key lv
AddedUnder(old, new, lv, poly) ==
    /\ DOMAIN new = DOMAIN old \cup {lv}
    /\ \A k \in DOMAIN old : k # lv => new[k] = old[k]
    /\ new[lv] = Append(GetItem(old, lv), poly)

\* C17: roi.add_polygon(z, xy) adds nothing when xy has fewer than 3 points;
\* for 3 points of a triangle with an area it adds the polygon of the three
\* points and the first one again; for any number of points it adds nothing
\* when the polygon of xy has no area; and it adds either nothing or one
\* polygon under the key z, every other key staying as it was.
C17_AddPolygon ==
    [][pc = "add" =>
        LET old == roi_obj.slices
            new == roi_obj'.slices
        IN  /\ Len(arg_xy) < 3 => new = old
            /\ (Len(arg_xy) = 3 /\ Shoelace(Append(arg_xy, arg_xy[1]), 1) # 0)
               => AddedUnder(old, new, arg_z,
                             [exterior |-> Append(arg_xy, arg_xy[1])])
            /\ (Len(arg_xy) >= 3 /\ Shoelace(Ring(arg_xy), 1) = 0) => new = old
            /\ \/ new = old
               \/ /\ CountPolys(new) = CountPolys(old) + 1
                  /\ \E ring \in {arg_xy, Append(arg_xy, arg_xy[1])} :
                        AddedUnder(old, new, arg_z, [exterior |-> ring])
            /\ roi_obj'.number = roi_obj.number
            /\ roi_obj'.name = roi_obj.name]_vars

\* a triangle was added as the second polygon of its level, next to a level
\* that stayed as it was
C17_Witness ==
    /\ pc = "added"
    /\ Len(arg_xy) = 3
    /\ DOMAIN roi_obj.slices = ZLevels
    /\ Len(roi_obj.slices[arg_z]) = 2
    /\ roi_obj.slices[arg_z][2] = [exterior |-> Append(arg_xy, arg_xy[1])]


\* C14: in parse_rtstruct a contour whose ContourData has a length that is
\* no multiple of 3 is dropped and the parse goes on: the call returns the
\* regions the dataset gives without such contours.
C14_ParseDropsBadContour ==
    (/\ pc \in {"raised", "parsed"}
     /\ \E k \in DOMAIN GroupsOrEmpty(ds) :
           \E c \in DOMAIN ContoursOrEmpty(GroupsOrEmpty(ds)[k]) :
              BadLength(ContoursOrEmpty(GroupsOrEmpty(ds)[k])[c]))
    => /\ pc = "parsed"
       /\ error = "None"
       /\ rt_rois = parse_rtstruct(WithoutBadContours(ds))


\* the contours of the region at position r of rois.items()
ContoursAt(r) == rt_rois[r][2]

\* the rounded z indices of a contour
RoundedKs(contour) == KsOf(IdxsOf(contour, origin, spacing, direction))

\* the mask of a contour
MaskOf(contour) ==
    polygon_to_mask(IdxsOf(contour, origin, spacing, direction),
                    volume_shape[2], volume_shape[3])

\* C19: in the output of contours_to_slice_masks every slice key k of every
\* region has 0 <= k < depth, every region of the input has its mapping, and
\* a region all of whose contours round only to indices out of that range
\* has the empty mapping.
C19_SliceKeysInRange ==
    /\ \A r \in DOMAIN slice_masks :
          \A k \in DOMAIN slice_masks[r][2] : 0 <= k /\ k < volume_shape[1]
    /\ pc = "masked" =>
          /\ Len(slice_masks) = Len(rt_rois)
          /\ \A r \in DOMAIN rt_rois :
                /\ slice_masks[r][1] = rt_rois[r][1]
                /\ (\A c \in DOMAIN ContoursAt(r) :
                       \A k \in RoundedKs(ContoursAt(r)[c]) :
                          k < 0 \/ k >= volume_shape[1])
                   => slice_masks[r][2] = EmptyDict

\* the call returned; one region has only contours out of range and the
\* empty mapping, the other has a contour with an index in range and one
\* with an index out of range, and a mask
C19_Witness ==
    /\ pc = "masked"
    /\ Len(slice_masks) = 2
    /\ slice_masks[1][2] = EmptyDict
    /\ slice_masks[2][2] # EmptyDict
    /\ \E c \in DOMAIN ContoursAt(2) :
          \E k \in RoundedKs(ContoursAt(2)[c]) : k < 0 \/ k >= volume_shape[1]

\* the union of the masks of the contours 1..n of the list that have k
\* among their rounded z indices
OrOfMasks(contours, n, k) ==
    UNION {MaskOf(contours[c]) : c \in {j \in 1..n : k \in RoundedKs(contours[j])}}

\* C20: for each region and slice k the mask stored is the OR of the masks
\* of all contours of the region whose rounded z indices include k, for the
\* regions stored and for the region being rasterized; and a further contour
\* never takes a slice or a true pixel away from per_slice.
C20_MaskIsOrOfPolygons ==
    /\ [](\A r \in DOMAIN slice_masks :
            \A k \in DOMAIN slice_masks[r][2] :
               slice_masks[r][2][k] =
                  OrOfMasks(ContoursAt(r), Len(ContoursAt(r)), k))
    /\ []((pc = "mask" /\ roi_idx <= Len(rt_rois)) =>
            \A k \in DOMAIN per_slice :
               per_slice[k] = OrOfMasks(ContoursAt(roi_idx), contour_idx - 1, k))
    /\ [][(pc = "mask" /\ roi_idx' = roi_idx) =>
            \A k \in DOMAIN per_slice :
               k \in DOMAIN per_slice' /\ per_slice[k] \subseteq per_slice'[k]]_vars

\* the call returned a mask of a slice that two contours of the region
\* reach, with pixels of each that the other does not have
C20_Witness ==
    /\ pc = "masked"
    /\ \E r \in DOMAIN slice_masks :
          /\ Len(ContoursAt(r)) = 2
          /\ \E k \in DOMAIN slice_masks[r][2] :
                /\ k \in RoundedKs(ContoursAt(r)[1]) \cap RoundedKs(ContoursAt(r)[2])
                /\ MaskOf(ContoursAt(r)[1]) \ MaskOf(ContoursAt(r)[2]) # {}
                /\ MaskOf(ContoursAt(r)[2]) \ MaskOf(ContoursAt(r)[1]) # {}
                /\ slice_masks[r][2][k] =
                      MaskOf(ContoursAt(r)[1]) \cup MaskOf(ContoursAt(r)[2])


\* C21: the keys of a region's mapping returned by contours_to_slice_masks
\* are the slices that got a contribution with a true pixel: no key maps to
\* an all-false mask, and a contour of fewer than 3 vertices or with an
\* empty clipped bounding box adds no key.
C21_NoAllFalseMask ==
    \A r \in DOMAIN slice_masks :
        \A k \in DOMAIN slice_masks[r][2] : slice_masks[r][2][k] # {}


\* C22: patient_to_index and indices_to_patient are inverses for a direction
\* with an inverse and spacings that are not 0: the index of a point gives
\* the point back, and the point of an index gives the index back.  The
\* arithmetic is exact, so "up to rounding" is equality.
C22_TransformsAreInverses ==
    hops = 2 => SameValue(coord, coord_start)

\* an index went to a point and came back
C22_WitnessIndex ==
    /\ hops = 2
    /\ coord_kind = "index"
    /\ direction = DirShear
    /\ spacing = <<1, 2, 3>>
    /\ coord_start.num = <<-1, 2, 0>>

\* a point went to an index with a fraction and came back, in a geometry
\* with a direction that is no permutation and an origin that is not 0
C22_Witness ==
    /\ hops = 2
    /\ coord_kind = "patient"
    /\ direction = DirStretched
    /\ origin = <<1, -1, 2>>
    /\ coord_start.num = <<2, 0, -1>>
    /\ SameValue(coord, coord_start)


\* a contour of the call went through patient_to_index
Transformed == \E r \in DOMAIN rt_rois : Len(rt_rois[r][2]) > 0

\* C23: a direction without inverse is surfaced as an error by the
\* transform: contours_to_slice_masks does not return masks computed from
\* the indices of such a direction.
C23_SingularDirectionRaises ==
    (Singular(direction) /\ Transformed) => pc # "masked"


\* the number of distinct colours among the coloured neighbours of x
TrueSaturation(x) == Cardinality(UsedColors(graph, colors, x))

\* C24: the vertex an iteration of dsatur_coloring colours is an uncoloured
\* vertex of maximal saturation among the uncoloured ones and, among those
\* of maximal saturation, of maximal degree.
C24_ChoosesMaxSaturationThenDegree ==
    [][DsaturStep =>
          /\ v' \in uncolored
          /\ \A y \in uncolored :
                \/ TrueSaturation(y) < TrueSaturation(v')
                \/ /\ TrueSaturation(y) = TrueSaturation(v')
                   /\ Cardinality(graph[y]) <= Cardinality(graph[v'])]_vars

\* the saturation of x before the vertex just coloured was coloured
SaturationBefore(x) ==
    Cardinality(UsedColors(graph, [n \in DOMAIN colors \ {v} |-> colors[n]], x))

\* saturation decided a choice: an uncoloured vertex of smaller saturation
\* was passed over
C24_Witness ==
    /\ pc = "loop"
    /\ Len(colorKeys) >= 2
    /\ colorKeys[Len(colorKeys)] = v
    /\ \E y \in uncolored : SaturationBefore(y) < SaturationBefore(v)

\* degree decided a choice: an uncoloured vertex of the same saturation and
\* of smaller degree was passed over
C24_WitnessDegree ==
    /\ pc = "loop"
    /\ Len(colorKeys) >= 1
    /\ colorKeys[Len(colorKeys)] = v
    /\ \E y \in uncolored :
          /\ Cardinality(graph[y]) < Cardinality(graph[v])
          /\ SaturationBefore(y) = SaturationBefore(v)

\* C26: at the start of every iteration of the dsatur_coloring loop,
\* saturation[x] of every uncoloured vertex x is the number of distinct
\* colours among its coloured neighbours.
C26_SaturationBookkeeping ==
    pc = "loop" =>
        \A x \in uncolored : saturation[x] = TrueSaturation(x)

\* an uncoloured vertex has two coloured neighbours of different colours
C26_Witness ==
    /\ pc = "loop"
    /\ \E x \in uncolored : saturation[x] = 2 /\ TrueSaturation(x) = 2


\* the colours of the coloured neighbours of x
NeighborColors(x) == {colors[n] : n \in graph[x] \cap DOMAIN colors}

\* C25: the colour dsatur_coloring gives a vertex is the smallest
\* non-negative integer that none of its coloured neighbours has at that
\* moment, and a colour once given is never changed.
C25_SmallestFreeColourKept ==
    [][/\ DsaturStep =>
             /\ colors'[v'] \in Nat
             /\ colors'[v'] \notin NeighborColors(v')
             /\ \A c \in 0..(colors'[v'] - 1) : c \in NeighborColors(v')
       /\ \A n \in DOMAIN colors :
             n \in DOMAIN colors' /\ colors'[n] = colors[n]]_vars

\* a vertex got colour 2 beside neighbours of colours 0 and 1, which they
\* still have
C25_Witness ==
    /\ pc = "loop"
    /\ v \in DOMAIN colors
    /\ colors[v] = 2
    /\ \E a, b \in graph[v] \cap DOMAIN colors : colors[a] = 0 /\ colors[b] = 1


\* the colours dsatur_coloring has used
ColoursUsed == {colors[n] : n \in DOMAIN colors}

\* C28: the colours dsatur_coloring returns are contiguous from 0: with k
\* distinct colours they are exactly 0..k-1, so every group id from 0 to the
\* largest one is a group of split_into_sets that is not empty.
C28_ColoursContiguous ==
    /\ pc \in {"split", "done"} =>
          ColoursUsed = 0..(Cardinality(ColoursUsed) - 1)
    /\ pc = "done" =>
          /\ DOMAIN sets = 0..(Cardinality(ColoursUsed) - 1)
          /\ \A c \in DOMAIN sets : Len(sets[c]) >= 1

\* three groups 0, 1 and 2 came out of split_into_sets
C28_Witness ==
    /\ pc = "done"
    /\ DOMAIN sets = {0, 1, 2}
    /\ ColoursUsed = {0, 1, 2}


\* a signal of the kind with the value is still queued for the GUI thread
Queued(kind, value) ==
    \E k \in DOMAIN events :
       events[k].kind = kind /\ events[k].value = <<value>>

\* the partition finished_signal carried is in the queue, in the slot or
\* stored
Delivered(roi_sets) ==
    \/ Queued("finished", roi_sets)
    \/ gui_pc \in {"finished_close", "finished_clear", "finished_store"}
          /\ gui_arg = <<roi_sets>>
    \/ processing_result = <<roi_sets>>

\* C27: once run_process has started the worker the run goes on to its end:
\* unless an exception is raised the worker builds the graph of the selected
\* ROIs, colours it, splits it and emits finished_signal with the partition,
\* once; no step of the GUI thread, the cancel button included, changes the
\* worker's position or data.
C27_RunsToCompletion ==
    /\ (pc = "started") ~> (finished_emits = 1 \/ pc = "except")
    /\ [](finished_emits <= 1)
    /\ [](finished_emits = 1 =>
             /\ DOMAIN graph = {rois[k].name : k \in DOMAIN rois}
             /\ DOMAIN colors = DOMAIN graph
             /\ sets = split_into_sets(colors, colorKeys)
             /\ Delivered(sets))
    /\ [][(GuiNext /\ pc # "run") => UNCHANGED <<pc, pipeVars>>]_vars

\* the worker ended with finished_signal emitted after the cancel button was
\* clicked: the dialog is hidden before the value 100 reached it
C27_Witness ==
    /\ pc = "returned"
    /\ finished_emits = 1
    /\ progress_dialog = "hidden"
    /\ Queued("progress", 100)
    /\ Queued("finished", sets)
    /\ Cardinality(DOMAIN sets) = 2

\* C29: self.progress_dialog is read and written on the GUI thread only:
\* update_progress and on_processing_finished never reach their use of it
\* after another thread closed it or set it to None.
C29_ProgressDialogOnGuiThreadOnly ==
    gui_pc \in {"update_progress", "finished_close"} =>
        progress_dialog # "None" /\ closed_by # "worker"


\* C30: with a volume loaded, after any sequence of navigation events and
\* series selections slice_index is a slice of the volume:
\* 0 <= slice_index <= depth - 1.
C30_SliceIndexInRange ==
    volume # <<>> => (0 <= slice_index /\ slice_index <= volume[1] - 1)

====
